---- MODULE Spec2Model ----
\* Verification model of the trading decision-support pipeline:
\*   CAPA 5/risk_manager.py        RiskManager (risk gate, cooldown, daily state)
\*   CAPA 1/market_data_stream.py  MarketDataStream (hybrid live / weekend feed)
\*   CAPA 2/technical_analyzer.py  TechnicalAnalyzer (signal gates)
\*   CAPA 3/error_memory_rag.py    ErrorMemoryRAG (error-memory penalty)
\* Times are whole minutes; money amounts are whole dollars; Python None is
\* the empty sequence << >> and a present optional value v is << v >>.
EXTENDS Integers, Sequences, FiniteSets, TLC

VARIABLES
    now,                \* datetime.now(), in minutes
    daily_stats,        \* RiskManager.daily_stats
    trades_file,        \* contents of daily_trades.json
    lastCheck,          \* the check_risk_approval call that has just returned: inputs, state before, result
    checkedSinceRecord, \* a check_risk_approval call was made after the latest record_trade_result
    lastRisk,           \* the RiskManager operation that has just returned: state and file before, result
    symbol_set,         \* the MarketDataStream instance has a symbol attribute
    running,            \* MarketDataStream.running
    market_mode,        \* MarketDataStream.market_mode
    historical_buffer,  \* MarketDataStream.historical_buffer
    weekend_buffer,     \* MarketDataStream.weekend_buffer
    current_price,      \* MarketDataStream.current_price, in pips (1e-4)
    friday_close_price, \* MarketDataStream.friday_close_price, in pips
    price_tracker,      \* ScreenPriceTracker.last_price / last_source
    lock,               \* holder of MarketDataStream._lock
    threads,            \* position of every feed thread ever created
    data_thread,        \* MarketDataStream.data_thread (0 is None)
    updating,           \* the refill in progress inside _update_historical_buffer
    ocr_queue,          \* futures submitted to ScreenPriceTracker._executor, oldest first
    ocr_pc,             \* position of the executor's worker thread
    executor_down,      \* ScreenPriceTracker._executor has been shut down
    friday_file,        \* weekend_cache/<symbol>_friday_context.csv
    weekend_file,       \* weekend_cache/<symbol>_weekend_buffer.csv
    main_pc,            \* position of the caller of start_stream / stop_stream
    reader,             \* a reader inside its "with self._lock" block
    lastRead,           \* the reader call that has just returned
    feedLog,            \* the feed step that has just ended
    stableHist,          \* historical_buffer as the latest locked section left it
    gate_call,          \* the should_wake_ai_weekend call that has just returned: inputs and result
    wake_call,          \* the should_wake_ai call that has just returned: inputs and result
    last_analysis,      \* TechnicalAnalyzer.last_analysis
    analysis_call,      \* the analyze_market_data call that has just returned: input, state before, result
    csv_file,           \* contents of experiment_results.csv, the outcome log
    mem_call,           \* the calculate_risk_adjustment call that has just returned
    adj_call,           \* the _apply_memory_adjustments call that has just returned
    ai_connected,       \* TradingDSSOrchestrator.ai_connected
    client_method,      \* the orchestrator's ai_client has analyze_market_context_with_memory
    dss_running,        \* TradingDSSOrchestrator.running
    active_alerts,      \* AlertManager.active_alerts, oldest first
    alerts_stuck,       \* a thread waits inside show_alert for the lock it holds
    session_records,    \* TradeJournal.session_records, each also a row of the journal file
    cycle,              \* the _analyze_symbol run that has just returned
    analysis_thread,    \* position of the thread running _analysis_loop
    ai_session,         \* LMStudioClient.session is set
    ai_call,            \* the analizar_mercado call that has just returned
    score_call,         \* the calculate_probability_scores call that has just returned
    schedule_call       \* the MarketSchedule reading that has just returned

riskVars == << daily_stats, trades_file, lastCheck, checkedSinceRecord, lastRisk >>

feedVars == << symbol_set, running, market_mode, historical_buffer, weekend_buffer,
               current_price, friday_close_price, price_tracker, lock, threads,
               data_thread, updating, ocr_queue, ocr_pc, executor_down, friday_file,
               weekend_file, main_pc, reader, lastRead, feedLog, stableHist >>

gateVars == << gate_call, wake_call >>
memVars == << csv_file, mem_call, adj_call >>
analyzerVars == << last_analysis, analysis_call >>
orchVars == << ai_connected, client_method, dss_running, active_alerts, alerts_stuck,
               session_records, cycle, analysis_thread >>
aiVars == << ai_session, ai_call >>
probVars == << score_call, schedule_call >>
pipelineVars == << orchVars, aiVars, probVars >>
analysisVars == << gateVars, memVars, analyzerVars, pipelineVars >>
vars == << now, riskVars, feedVars, analysisVars >>

\* ---------------------------------------------------------------- bounds
MaxNow == 1440
MaxTrades == 3

\* ------------------------------------------------ RiskManager (CAPA 5)
MinutesPerDay == 24 * 60
StartNow == MinutesPerDay - 30
TimeSteps == {15, 30}
Amounts == {10, 50}
Results == {"LOSS", "WIN"}
Decisions == {"CALL", "PUT", "HOLD"}
Confidences == {59, 60}
Volatilities == {2, 3}

max_daily_loss == 100
max_consecutive_losses == 3
cooldown_minutes == 30
max_volatility == 2
min_confidence == 60
last_trades_kept == 10

None == << >>
Some(v) == << v >>

\* strftime('%Y-%m-%d') of a time: the number of its calendar day
DateOf(t) == t \div MinutesPerDay
\* strftime('%H:%M:%S') of a time: the minute within its day
ClockOf(t) == t % MinutesPerDay

NewDailyStats(t) ==
    [ date |-> DateOf(t), total_loss |-> 0, consecutive_losses |-> 0,
      total_trades |-> 0, blocked_until |-> None, last_trades |-> << >> ]

\* the state file: missing, unreadable, or one saved record
FileMissing == [ kind |-> "missing", data |-> NewDailyStats(0) ]
FileCorrupt == [ kind |-> "corrupt", data |-> NewDailyStats(0) ]
FileOf(stats) == [ kind |-> "json", data |-> stats ]

LoadDailyStats_IgnoresDate(file, t) ==
    IF file.kind = "json"
    THEN file.data
    ELSE NewDailyStats(t)

LoadDailyStats(file, t) ==
    IF file.kind = "json" /\ file.data.date = DateOf(t)
    THEN file.data
    ELSE NewDailyStats(t)

SaveDailyStats(stats) == FileOf(stats)

IsTemporarilyBlocked_NoCooldown(stats, t) == FALSE

IsTemporarilyBlocked_Forever(stats, t) == stats.blocked_until # None

IsTemporarilyBlocked(stats, t) ==
    IF stats.blocked_until = None
    THEN FALSE
    ELSE t < stats.blocked_until[1]

ApplyCooldown_ResetsLosses(stats, t) ==
    [ stats EXCEPT !.blocked_until = Some(t + cooldown_minutes),
                   !.consecutive_losses = 0 ]

ApplyCooldown(stats, t) ==
    [ stats EXCEPT !.blocked_until = Some(t + cooldown_minutes) ]

CheckResult(ok, reason, level) ==
    [ approved |-> ok, reason |-> reason, risk_level |-> level ]

CheckOutcome_VolatilityAfterConfidence(stats, t, ai_decision, confidence, market_volatility) ==
    IF IsTemporarilyBlocked(stats, t)
    THEN CheckResult(FALSE, "Sistema bloqueado por perdidas consecutivas", "CRITICAL")
    ELSE IF stats.total_loss >= max_daily_loss
    THEN CheckResult(FALSE, "Limite diario alcanzado", "CRITICAL")
    ELSE IF stats.consecutive_losses >= max_consecutive_losses
    THEN CheckResult(FALSE, "perdidas consecutivas - Cooldown aplicado", "HIGH")
    ELSE IF confidence < min_confidence
    THEN CheckResult(FALSE, "Confianza insuficiente", "MEDIUM")
    ELSE IF market_volatility > max_volatility
    THEN CheckResult(FALSE, "Volatilidad extrema", "HIGH")
    ELSE IF ai_decision \notin {"CALL", "PUT"}
    THEN CheckResult(FALSE, "Decision invalida o HOLD", "LOW")
    ELSE CheckResult(TRUE, "Todos los controles de riesgo pasados", "LOW")

\* the value check_risk_approval returns
CheckOutcome(stats, t, ai_decision, confidence, market_volatility) ==
    IF IsTemporarilyBlocked(stats, t)
    THEN CheckResult(FALSE, "Sistema bloqueado por perdidas consecutivas", "CRITICAL")
    ELSE IF stats.total_loss >= max_daily_loss
    THEN CheckResult(FALSE, "Limite diario alcanzado", "CRITICAL")
    ELSE IF stats.consecutive_losses >= max_consecutive_losses
    THEN CheckResult(FALSE, "perdidas consecutivas - Cooldown aplicado", "HIGH")
    ELSE IF market_volatility > max_volatility
    THEN CheckResult(FALSE, "Volatilidad extrema", "HIGH")
    ELSE IF confidence < min_confidence
    THEN CheckResult(FALSE, "Confianza insuficiente", "MEDIUM")
    ELSE IF ai_decision \notin {"CALL", "PUT"}
    THEN CheckResult(FALSE, "Decision invalida o HOLD", "LOW")
    ELSE CheckResult(TRUE, "Todos los controles de riesgo pasados", "LOW")

CooldownApplies_OnlyOnce(stats, t) ==
    /\ stats.blocked_until = None
    /\ stats.total_loss < max_daily_loss
    /\ stats.consecutive_losses >= max_consecutive_losses

\* check 3 is the only branch of check_risk_approval with a side effect
CooldownApplies(stats, t) ==
    /\ ~IsTemporarilyBlocked(stats, t)
    /\ stats.total_loss < max_daily_loss
    /\ stats.consecutive_losses >= max_consecutive_losses

NoCheck ==
    [ called |-> FALSE, at |-> 0, pre |-> NewDailyStats(0), fresh |-> FALSE,
      ai_decision |-> "HOLD", confidence |-> 0, market_volatility |-> 0,
      result |-> CheckResult(FALSE, "", "") ]

alert_loss_percent == 70
caution_losses == 2

\* _get_risk_status
GetRiskStatus(stats, t) ==
    IF IsTemporarilyBlocked(stats, t) THEN "BLOQUEADO"
    ELSE IF stats.consecutive_losses >= caution_losses THEN "PRECAUCION"
    ELSE IF stats.total_loss * 100 > max_daily_loss * alert_loss_percent THEN "ALERTA"
    ELSE "SEGURO"

\* the dict get_risk_summary returns
RiskSummary(stats, t) ==
    [ daily_loss |-> stats.total_loss,
      max_daily_loss |-> max_daily_loss,
      consecutive_losses |-> stats.consecutive_losses,
      max_consecutive_losses |-> max_consecutive_losses,
      total_trades_today |-> stats.total_trades,
      is_blocked |-> IsTemporarilyBlocked(stats, t),
      blocked_until |-> stats.blocked_until,
      risk_status |-> GetRiskStatus(stats, t) ]

NoRiskOp ==
    [ op |-> "none", at |-> 0, pre |-> NewDailyStats(0), pre_file |-> FileMissing,
      result |-> "", amount |-> 0, summary |-> RiskSummary(NewDailyStats(0), 0) ]

RiskOp(op, result, amount) ==
    [ op |-> op, at |-> now, pre |-> daily_stats, pre_file |-> trades_file,
      result |-> result, amount |-> amount, summary |-> RiskSummary(daily_stats, now) ]

\* RiskManager() constructed at time t
RiskInit(t) ==
    /\ trades_file = FileMissing
    /\ daily_stats = LoadDailyStats(trades_file, t)
    /\ lastCheck = NoCheck
    /\ checkedSinceRecord = FALSE
    /\ lastRisk = NoRiskOp

\* time passes
Tick ==
    /\ \E d \in TimeSteps :
          /\ now + d <= MaxNow
          /\ now' = now + d
    /\ lastCheck' = NoCheck
    /\ lastRisk' = NoRiskOp
    /\ UNCHANGED << daily_stats, trades_file, checkedSinceRecord, feedVars, analysisVars >>

\* check_risk_approval(ai_decision, confidence, market_volatility), for
\* arguments of the given sets
CheckRiskApproval(decisions, confidences, volatilities) ==
    \E ai_decision \in decisions, confidence \in confidences, market_volatility \in volatilities :
        /\ lastCheck' =
              [ called |-> TRUE, at |-> now, pre |-> daily_stats,
                fresh |-> ~checkedSinceRecord,
                ai_decision |-> ai_decision, confidence |-> confidence,
                market_volatility |-> market_volatility,
                result |-> CheckOutcome(daily_stats, now, ai_decision, confidence,
                                        market_volatility) ]
        /\ IF CooldownApplies(daily_stats, now)
           THEN /\ daily_stats' = ApplyCooldown(daily_stats, now)
                /\ trades_file' = SaveDailyStats(daily_stats')
           ELSE UNCHANGED << daily_stats, trades_file >>
        /\ checkedSinceRecord' = TRUE
        /\ lastRisk' = RiskOp("check_risk_approval", "", 0)
        /\ UNCHANGED << now, feedVars, analysisVars >>

check_risk_approval == CheckRiskApproval(Decisions, Confidences, Volatilities)

RecordedStats_KeepsOldest(stats, t, result, amount) ==
    LET counted == [ stats EXCEPT !.total_trades = @ + 1 ]
        scored  == IF result = "LOSS"
                   THEN [ counted EXCEPT !.total_loss = @ + amount,
                                         !.consecutive_losses = @ + 1 ]
                   ELSE [ counted EXCEPT !.consecutive_losses = 0 ]
        entry   == [ time |-> ClockOf(t), result |-> result, amount |-> amount ]
        all     == Append(scored.last_trades, entry)
    IN  [ scored EXCEPT !.last_trades =
             IF Len(all) > last_trades_kept THEN SubSeq(all, 1, last_trades_kept) ELSE all ]

RecordedStats(stats, t, result, amount) ==
    LET counted == [ stats EXCEPT !.total_trades = @ + 1 ]
        scored  == IF result = "LOSS"
                   THEN [ counted EXCEPT !.total_loss = @ + amount,
                                         !.consecutive_losses = @ + 1 ]
                   ELSE [ counted EXCEPT !.consecutive_losses = 0 ]
        entry   == [ time |-> ClockOf(t), result |-> result, amount |-> amount ]
        all     == Append(scored.last_trades, entry)
        kept    == IF Len(all) > last_trades_kept
                   THEN SubSeq(all, Len(all) - last_trades_kept + 1, Len(all))
                   ELSE all
    IN  [ scored EXCEPT !.last_trades = kept ]

\* record_trade_result(result, amount), for results and amounts of the given
\* sets and up to cap trades a day
RecordTradeResult(results, amounts, cap) ==
    \E result \in results, amount \in amounts :
        /\ daily_stats.total_trades < cap
        /\ daily_stats' = RecordedStats(daily_stats, now, result, amount)
        /\ trades_file' = SaveDailyStats(daily_stats')
        /\ checkedSinceRecord' = FALSE
        /\ lastCheck' = NoCheck
        /\ lastRisk' = RiskOp("record_trade_result", result, amount)
        /\ UNCHANGED << now, feedVars, analysisVars >>

record_trade_result == RecordTradeResult(Results, Amounts, MaxTrades)

\* get_risk_summary
get_risk_summary ==
    /\ lastRisk' = RiskOp("get_risk_summary", "", 0)
    /\ lastCheck' = NoCheck
    /\ UNCHANGED << now, daily_stats, trades_file, checkedSinceRecord, feedVars, analysisVars >>

\* the process is restarted: a new RiskManager is constructed over the same
\* state file
NewRiskManager ==
    /\ daily_stats' = LoadDailyStats(trades_file, now)
    /\ lastRisk' = RiskOp("__init__", "", 0)
    /\ lastCheck' = NoCheck
    /\ checkedSinceRecord' = FALSE
    /\ UNCHANGED << now, trades_file, feedVars, analysisVars >>

\* the state file is left unreadable (a write cut short): json.load raises
DamageFile ==
    /\ trades_file.kind = "json"
    /\ trades_file' = FileCorrupt
    /\ lastRisk' = NoRiskOp
    /\ lastCheck' = NoCheck
    /\ UNCHANGED << now, daily_stats, checkedSinceRecord, feedVars, analysisVars >>

RiskNext ==
    \/ Tick
    \/ check_risk_approval
    \/ record_trade_result
    \/ get_risk_summary
    \/ NewRiskManager
    \/ DamageFile

MaxLongTrades == 11
LongResults == { "LOSS", "WIN", "DRAW" }
LongAmounts == { 10 }

\* many results recorded in a row, enough for last_trades to overflow
record_trade_results == RecordTradeResult(LongResults, LongAmounts, MaxLongTrades)

RecordNext == record_trade_results

MaxCooldownTrades == 4

\* results recorded before and after a cooldown, one more than the loss limit
record_trade_result_again == RecordTradeResult(Results, Amounts, MaxCooldownTrades)

CooldownNext ==
    \/ Tick
    \/ check_risk_approval
    \/ record_trade_result_again

\* ------------------------------------------- MarketDataStream (CAPA 1)
\* Prices are whole pips (1.08450 is 10845). Times are minutes since a
\* Monday 00:00, so that weekday() and hour follow from a time. A MarketTick
\* is carried as its close, source and data_source_tag; its other fields
\* (symbol, timestamp, open, high, low, volume) are copied along and never read
\* by the operations modelled here.

MaxThreads == 2
MaxPending == 1
MaxWeekendTicks == 2
MaxDrift == 1

historical_maxlen == 1200
weekend_maxlen == 500
default_mock_price == 10845
weekend_prices_kept == 10

ThreadIds == 1..MaxThreads
Noise == {0 - 1, 0, 1}
PriceRange == (default_mock_price - MaxDrift)..(default_mock_price + MaxDrift)
OcrPrices == {default_mock_price + 1}
\* what ticker.history returns: an ordered window of closes, possibly empty
Windows == { << >>, << default_mock_price - 1, default_mock_price + 1 >>, << default_mock_price >> }

At(weekday, hour) == weekday * MinutesPerDay + hour * 60
FeedTimes == { At(4, 20), At(4, 21), At(4, 22), At(6, 21), At(6, 22) }

Weekday(t) == (t \div MinutesPerDay) % 7
Hour(t) == (t % MinutesPerDay) \div 60

IsMarketOpen_ClosedSunday(t) ==
    IF Weekday(t) = 5 \/ Weekday(t) = 6 THEN FALSE
    ELSE IF Weekday(t) = 4 THEN Hour(t) < 22
    ELSE TRUE

IsMarketOpen(t) ==
    IF Weekday(t) = 5 THEN FALSE
    ELSE IF Weekday(t) = 6 THEN Hour(t) >= 22
    ELSE IF Weekday(t) = 4 THEN Hour(t) < 22
    ELSE TRUE

IsFridayClose(t) == Weekday(t) = 4 /\ Hour(t) >= 21

MarketTick(close, source, tag) ==
    [ close |-> close, source |-> source, data_source_tag |-> tag ]

\* deque(maxlen=n).append
DequeAppend(buf, x, maxlen) ==
    IF Len(buf) >= maxlen THEN Append(Tail(buf), x) ELSE Append(buf, x)

Last(seq) == seq[Len(seq)]

DetectedMode_Inverted(t) == IF IsMarketOpen(t) THEN "weekend_otc" ELSE "live"

\* the mode _detect_market_mode sets
DetectedMode(t) == IF IsMarketOpen(t) THEN "live" ELSE "weekend_otc"

\* the tick _on_weekend_price builds
WeekendTick(price, source_tag) ==
    MarketTick(price, IF source_tag = "OCR_LIVE" THEN "ocr" ELSE "mock", source_tag)

\* the tick _update_historical_buffer builds from one row
HistoricalTick(close) == MarketTick(close, "yfinance", "UNKNOWN")

\* a mock price derived from a last known price, or the default when there is none
MockFrom(last) ==
    IF last > 0
    THEN { last + n : n \in Noise } \cap PriceRange
    ELSE { default_mock_price }

\* the mock price of the except branches
MockDefault == { default_mock_price + n : n \in Noise } \cap PriceRange

NoRead ==
    [ called |-> FALSE, op |-> "", raised |-> FALSE, data |-> << >>,
      historical_size |-> 0, market_mode |-> "", weekend_prices |-> << >>,
      weekend_count |-> 0, current_price |-> 0, friday_close |-> 0 ]

NoReader == [ pc |-> "out", op |-> "", mode_at_entry |-> "" ]

NoFeedLog ==
    [ kind |-> "", open |-> FALSE, mode_before |-> "", provided |-> << >>,
      provider_raises |-> FALSE, fetched |-> FALSE, capture |-> "", weekend_before |-> << >>,
      hist_before |-> << >>, price_before |-> 0, outcome |-> 0,
      load_attempted |-> FALSE, load_raised |-> FALSE ]

NoUpdate == [ rows |-> << >>, window |-> << >>, hist_before |-> << >>, price_before |-> 0 ]

\* MarketDataStream(symbol) constructed; has_symbol tells whether the instance
\* carries a symbol attribute (__init__ assigns none)
FeedInit(has_symbol) ==
    /\ symbol_set = has_symbol
    /\ running = FALSE
    /\ market_mode = "unknown"
    /\ historical_buffer = << >>
    /\ weekend_buffer = << >>
    /\ current_price = 0
    /\ friday_close_price = 0
    /\ price_tracker = [ last_price |-> 0, last_source |-> "UNKNOWN" ]
    /\ lock = "none"
    /\ threads = [ i \in ThreadIds |-> "unborn" ]
    /\ data_thread = 0
    /\ updating = NoUpdate
    /\ ocr_queue = << >>
    /\ ocr_pc = "idle"
    /\ executor_down = FALSE
    /\ friday_file = None
    /\ weekend_file = None
    /\ main_pc = "idle"
    /\ reader = NoReader
    /\ lastRead = NoRead
    /\ feedLog = NoFeedLog
    /\ stableHist = << >>

\* time passes, to a later sample instant
FeedTick ==
    /\ \E t \in FeedTimes : t > now /\ now' = t
    /\ lastRead' = NoRead
    /\ feedLog' = NoFeedLog
    /\ UNCHANGED << riskVars, analysisVars, symbol_set, running, market_mode, historical_buffer,
                 weekend_buffer, current_price, friday_close_price, price_tracker,
                 lock, threads, data_thread, updating, ocr_queue, ocr_pc,
                 executor_down, friday_file, weekend_file, main_pc, reader,
                 stableHist >>

NextThread ==
    CHOOSE i \in ThreadIds :
        threads[i] = "unborn" /\ \A j \in ThreadIds : j < i => threads[j] # "unborn"

\* the columns of the file save_friday_context writes: DataFrame.to_csv keeps
\* the names of the provider's frame, the ones _update_historical_buffer reads
SavedColumns == { "Open", "High", "Low", "Close", "Volume" }

\* the columns _load_friday_context reads from each row of the file
LoadedColumns == { "open", "high", "low", "close", "volume" }

\* the tick _load_friday_context builds from one row
FridayTick(close) == MarketTick(close, "friday_cache", "CACHE_FRIDAY")

\* _load_friday_context raises on the first row of a non-empty context: the
\* instance has no symbol attribute, or the row lacks a column it reads
LoadFridayContextRaises(has_symbol) == ~has_symbol \/ ~(LoadedColumns \subseteq SavedColumns)

\* start_stream, _detect_market_mode included. With a last-session file present
\* _load_friday_context clears the buffer under the lock, and when it raises
\* the error leaves start_stream before a thread is started.
StartStream ==
    /\ main_pc = "idle"
    /\ ~running
    /\ running' = TRUE
    /\ market_mode' = DetectedMode(now)
    /\ \E loads \in { ~IsMarketOpen(now) /\ friday_file # None } :
       \E raises \in { loads /\ LoadFridayContextRaises(symbol_set) } :
          /\ loads => lock = "none"
          /\ historical_buffer' =
                IF ~loads THEN historical_buffer
                ELSE IF raises THEN << >>
                ELSE [ k \in 1..Len(friday_file[1]) |-> FridayTick(friday_file[1][k]) ]
          /\ friday_close_price' =
                IF loads /\ ~raises THEN Last(friday_file[1]) ELSE friday_close_price
          /\ IF raises
             THEN UNCHANGED << threads, data_thread >>
             ELSE /\ \E i \in ThreadIds : threads[i] = "unborn"
                  /\ threads' = [ threads EXCEPT ![NextThread] = "loop" ]
                  /\ data_thread' = NextThread
          /\ feedLog' = [ NoFeedLog EXCEPT !.kind = "start", !.open = IsMarketOpen(now),
                                           !.mode_before = market_mode,
                                           !.load_attempted = ~IsMarketOpen(now),
                                           !.load_raised = raises ]
    /\ lastRead' = NoRead
    /\ UNCHANGED << stableHist, symbol_set, weekend_buffer, current_price,
                 price_tracker, lock, updating, ocr_queue, ocr_pc,
                 executor_down, friday_file, weekend_file, main_pc, reader >>

\* start_stream called on its own
start_stream == StartStream /\ UNCHANGED << now, riskVars, analysisVars >>

\* while self.running: the loop condition read false
ThreadExit(i) ==
    /\ threads[i] = "loop"
    /\ ~running
    /\ threads' = [ threads EXCEPT ![i] = "done" ]
    /\ lastRead' = NoRead
    /\ feedLog' = NoFeedLog
    /\ UNCHANGED << now, riskVars, analysisVars, symbol_set, running, market_mode, historical_buffer,
                 weekend_buffer, current_price, friday_close_price, price_tracker,
                 lock, data_thread, updating, ocr_queue, ocr_pc, executor_down,
                 friday_file, weekend_file, main_pc, reader, stableHist >>

LiveCycleSwitch_IgnoresStop(i) ==
    /\ threads[i] = "loop" /\ market_mode = "live"
    /\ ~IsMarketOpen(now)
    /\ market_mode' = "weekend_otc"
    /\ feedLog' = [ NoFeedLog EXCEPT !.kind = "live_cycle", !.open = IsMarketOpen(now),
                                     !.mode_before = market_mode,
                                     !.hist_before = historical_buffer,
                                     !.price_before = current_price ]
    /\ lastRead' = NoRead
    /\ UNCHANGED << now, riskVars, analysisVars, symbol_set, running, historical_buffer, weekend_buffer,
                 current_price, friday_close_price, price_tracker, lock, threads,
                 data_thread, updating, ocr_queue, ocr_pc, executor_down, friday_file,
                 weekend_file, main_pc, reader, stableHist >>

\* _handle_live_market when the clock reports the market closed
LiveCycleSwitch(i) ==
    /\ threads[i] = "loop" /\ running /\ market_mode = "live"
    /\ ~IsMarketOpen(now)
    /\ market_mode' = "weekend_otc"
    /\ feedLog' = [ NoFeedLog EXCEPT !.kind = "live_cycle", !.open = IsMarketOpen(now),
                                     !.mode_before = market_mode,
                                     !.hist_before = historical_buffer,
                                     !.price_before = current_price ]
    /\ lastRead' = NoRead
    /\ UNCHANGED << now, riskVars, analysisVars, symbol_set, running, historical_buffer, weekend_buffer,
                 current_price, friday_close_price, price_tracker, lock, threads,
                 data_thread, updating, ocr_queue, ocr_pc, executor_down, friday_file,
                 weekend_file, main_pc, reader, stableHist >>

\* _handle_live_market, market open, ending without a refill: the fetch is
\* never made (yf.Ticker(self.symbol) raises without a symbol attribute), or
\* it raises, or it returns an empty window. w is what the provider holds.
LiveCycleNoData(i) ==
    /\ threads[i] = "loop" /\ running /\ market_mode = "live"
    /\ IsMarketOpen(now)
    /\ \E w \in Windows, fetch_raises \in BOOLEAN :
          /\ ~symbol_set \/ fetch_raises \/ w = << >>
          /\ feedLog' = [ NoFeedLog EXCEPT !.kind = "live_cycle", !.open = TRUE,
                                           !.mode_before = market_mode,
                                           !.provided = w,
                                           !.provider_raises = fetch_raises,
                                           !.fetched = symbol_set /\ ~fetch_raises,
                                           !.hist_before = historical_buffer,
                                           !.price_before = current_price ]
    /\ lastRead' = NoRead
    /\ UNCHANGED << now, riskVars, analysisVars, symbol_set, running, market_mode, historical_buffer,
                 weekend_buffer, current_price, friday_close_price, price_tracker,
                 lock, threads, data_thread, updating, ocr_queue, ocr_pc,
                 executor_down, friday_file, weekend_file, main_pc, reader,
                 stableHist >>

\* _handle_live_market, market open, non-empty window fetched:
\* _update_historical_buffer takes the lock and clears the buffer
LiveCycleBegin(i) ==
    /\ threads[i] = "loop" /\ running /\ market_mode = "live"
    /\ IsMarketOpen(now)
    /\ symbol_set
    /\ lock = "none"
    /\ \E w \in Windows \ { << >> } :
          updating' = [ rows |-> w, window |-> w, hist_before |-> historical_buffer,
                        price_before |-> current_price ]
    /\ lock' = "feed"
    /\ historical_buffer' = << >>
    /\ threads' = [ threads EXCEPT ![i] = "update" ]
    /\ lastRead' = NoRead
    /\ feedLog' = NoFeedLog
    /\ UNCHANGED << now, riskVars, analysisVars, symbol_set, running, market_mode, weekend_buffer,
                 current_price, friday_close_price, price_tracker, data_thread,
                 ocr_queue, ocr_pc, executor_down, friday_file, weekend_file, main_pc,
                 reader, stableHist >>

\* one turn of the loop over hist_data.iterrows()
UpdateAppend(i) ==
    /\ threads[i] = "update"
    /\ updating.rows # << >>
    /\ historical_buffer' =
          DequeAppend(historical_buffer, HistoricalTick(Head(updating.rows)), historical_maxlen)
    /\ updating' = [ updating EXCEPT !.rows = Tail(@) ]
    /\ lastRead' = NoRead
    /\ feedLog' = NoFeedLog
    /\ UNCHANGED << now, riskVars, analysisVars, symbol_set, running, market_mode, weekend_buffer,
                 current_price, friday_close_price, price_tracker, lock, threads,
                 data_thread, ocr_queue, ocr_pc, executor_down, friday_file,
                 weekend_file, main_pc, reader, stableHist >>

\* the end of _update_historical_buffer and the rest of _handle_live_market
UpdateFinish(i) ==
    /\ threads[i] = "update"
    /\ updating.rows = << >>
    /\ current_price' = Last(updating.window)
    /\ lock' = "none"
    /\ stableHist' = historical_buffer
    /\ IF IsFridayClose(now)
       THEN /\ friday_file' = Some(updating.window)
            /\ friday_close_price' = Last(updating.window)
       ELSE UNCHANGED << friday_file, friday_close_price >>
    /\ threads' = [ threads EXCEPT ![i] = "loop" ]
    /\ updating' = NoUpdate
    /\ feedLog' = [ NoFeedLog EXCEPT !.kind = "live_cycle", !.open = TRUE,
                                     !.mode_before = "live",
                                     !.provided = updating.window, !.fetched = TRUE,
                                     !.hist_before = updating.hist_before,
                                     !.price_before = updating.price_before ]
    /\ lastRead' = NoRead
    /\ UNCHANGED << now, riskVars, analysisVars, symbol_set, running, market_mode, historical_buffer,
                 weekend_buffer, price_tracker, data_thread, ocr_queue, ocr_pc,
                 executor_down, weekend_file, main_pc, reader >>

\* _handle_weekend_otc when the clock reports the market open
OtcCycleSwitch(i) ==
    /\ threads[i] = "loop" /\ running /\ market_mode # "live"
    /\ IsMarketOpen(now)
    /\ market_mode' = "live"
    /\ feedLog' = [ NoFeedLog EXCEPT !.kind = "weekend_cycle",
                                     !.open = IsMarketOpen(now),
                                     !.mode_before = market_mode,
                                     !.weekend_before = weekend_buffer ]
    /\ lastRead' = NoRead
    /\ UNCHANGED << now, riskVars, analysisVars, symbol_set, running, historical_buffer, weekend_buffer,
                 current_price, friday_close_price, price_tracker, lock, threads,
                 data_thread, updating, ocr_queue, ocr_pc, executor_down, friday_file,
                 weekend_file, main_pc, reader, stableHist >>

\* _on_weekend_price(price, source_tag), one locked block: current_price is
\* set, then building the MarketTick reads self.symbol; without the attribute
\* that raises, the lock is released and nothing is appended.
OnWeekendPrice(price, source_tag) ==
    /\ lock = "none"
    /\ current_price' = price
    /\ IF symbol_set
       THEN weekend_buffer' = DequeAppend(weekend_buffer, WeekendTick(price, source_tag),
                                          weekend_maxlen)
       ELSE UNCHANGED weekend_buffer

\* _handle_weekend_otc, market closed, capture_frame returned no frame: a mock
\* price goes to _on_weekend_price
OtcCaptureFailed(i) ==
    /\ threads[i] = "loop" /\ running /\ market_mode # "live"
    /\ ~IsMarketOpen(now)
    /\ Len(weekend_buffer) < MaxWeekendTicks
    /\ \E mock \in MockFrom(current_price) : OnWeekendPrice(mock, "MOCK_GENERATED")
    /\ IF symbol_set
       THEN /\ feedLog' = [ NoFeedLog EXCEPT !.kind = "weekend_cycle", !.open = FALSE,
                                             !.mode_before = market_mode,
                                             !.capture = "failed",
                                             !.weekend_before = weekend_buffer,
                                             !.price_before = current_price ]
            /\ UNCHANGED threads
       ELSE /\ threads' = [ threads EXCEPT ![i] = "otc_except" ]
            /\ feedLog' = NoFeedLog
    /\ lastRead' = NoRead
    /\ UNCHANGED << now, riskVars, analysisVars, symbol_set, running, market_mode, historical_buffer,
                 friday_close_price, price_tracker, lock, data_thread, updating,
                 ocr_queue, ocr_pc, executor_down, friday_file, weekend_file, main_pc,
                 reader, stableHist >>

\* the except branch of _handle_weekend_otc after _on_weekend_price raised: the
\* fallback mock goes to _on_weekend_price, which raises again, out to the loop
OtcExcept(i) ==
    /\ threads[i] = "otc_except"
    /\ \E mock \in MockDefault : OnWeekendPrice(mock, "MOCK_GENERATED")
    /\ threads' = [ threads EXCEPT ![i] = "loop" ]
    /\ feedLog' = [ NoFeedLog EXCEPT !.kind = "weekend_cycle", !.open = FALSE,
                                     !.mode_before = "weekend_otc",
                                     !.capture = "failed",
                                     !.weekend_before = weekend_buffer,
                                     !.price_before = current_price ]
    /\ lastRead' = NoRead
    /\ UNCHANGED << now, riskVars, analysisVars, symbol_set, running, market_mode, historical_buffer,
                 friday_close_price, price_tracker, lock, data_thread, updating,
                 ocr_queue, ocr_pc, executor_down, friday_file, weekend_file, main_pc,
                 reader, stableHist >>

\* _handle_weekend_otc, market closed, frame captured: process_frame_async
\* submits the OCR job. outcome is what _find_and_read_price will return: a
\* price read from the frame, or 0 for every failure to read one.
OtcSubmit(i) ==
    /\ threads[i] = "loop" /\ running /\ market_mode # "live"
    /\ ~IsMarketOpen(now)
    /\ ~executor_down
    /\ Len(ocr_queue) < MaxPending
    /\ \E outcome \in OcrPrices \cup {0} : ocr_queue' = Append(ocr_queue, outcome)
    /\ feedLog' = [ NoFeedLog EXCEPT !.kind = "weekend_cycle", !.open = FALSE,
                                     !.mode_before = market_mode,
                                     !.capture = "submitted",
                                     !.weekend_before = weekend_buffer,
                                     !.price_before = current_price ]
    /\ lastRead' = NoRead
    /\ UNCHANGED << now, riskVars, analysisVars, symbol_set, running, market_mode, historical_buffer,
                 weekend_buffer, current_price, friday_close_price, price_tracker,
                 lock, threads, data_thread, updating, ocr_pc, executor_down,
                 friday_file, weekend_file, main_pc, reader, stableHist >>

\* _handle_weekend_otc, market closed, frame captured, executor already shut
\* down: submit raises and the except branch sends the fallback mock
OtcSubmitRefused(i) ==
    /\ threads[i] = "loop" /\ running /\ market_mode # "live"
    /\ ~IsMarketOpen(now)
    /\ executor_down
    /\ Len(weekend_buffer) < MaxWeekendTicks
    /\ \E mock \in MockDefault : OnWeekendPrice(mock, "MOCK_GENERATED")
    /\ feedLog' = [ NoFeedLog EXCEPT !.kind = "weekend_cycle", !.open = FALSE,
                                     !.mode_before = market_mode,
                                     !.capture = "refused",
                                     !.weekend_before = weekend_buffer,
                                     !.price_before = current_price ]
    /\ lastRead' = NoRead
    /\ UNCHANGED << now, riskVars, analysisVars, symbol_set, running, market_mode, historical_buffer,
                 friday_close_price, price_tracker, lock, threads, data_thread,
                 updating, ocr_queue, ocr_pc, executor_down, friday_file, weekend_file,
                 main_pc, reader, stableHist >>

\* the price and tag _on_complete hands to the callback for an OCR outcome
CompletedPrices(outcome) ==
    IF outcome > 0 THEN { outcome } ELSE MockFrom(price_tracker.last_price)

CompletedTag(outcome) == IF outcome > 0 THEN "OCR_LIVE" ELSE "MOCK_GENERATED"

\* ScreenPriceTracker._on_complete on the executor's thread, up to the return
\* of the callback or to its raising
OcrComplete ==
    /\ ocr_pc = "idle"
    /\ ocr_queue # << >>
    /\ Len(weekend_buffer) < MaxWeekendTicks
    /\ LET outcome == Head(ocr_queue) IN
          /\ price_tracker' =
                [ last_price  |-> IF outcome > 0 THEN outcome ELSE price_tracker.last_price,
                  last_source |-> CompletedTag(outcome) ]
          /\ \E price \in CompletedPrices(outcome) :
                OnWeekendPrice(price, CompletedTag(outcome))
          /\ IF symbol_set
             THEN /\ feedLog' = [ NoFeedLog EXCEPT !.kind = "ocr_done", !.outcome = outcome,
                                                   !.open = IsMarketOpen(now),
                                                   !.mode_before = market_mode,
                                                   !.weekend_before = weekend_buffer,
                                                   !.price_before = current_price ]
                  /\ ocr_queue' = Tail(ocr_queue)
                  /\ ocr_pc' = "idle"
             ELSE /\ feedLog' = NoFeedLog
                  /\ ocr_pc' = "except"
                  /\ UNCHANGED ocr_queue
    /\ lastRead' = NoRead
    /\ UNCHANGED << now, riskVars, analysisVars, symbol_set, running, market_mode, historical_buffer,
                 friday_close_price, lock, threads, data_thread, updating,
                 executor_down, friday_file, weekend_file, main_pc, reader,
                 stableHist >>

\* the except branch of _on_complete after the callback raised: the callback
\* is called again with the fallback mock and raises again, out of the
\* done-callback; the job is over
OcrExcept ==
    /\ ocr_pc = "except"
    /\ \E mock \in MockDefault : OnWeekendPrice(mock, "MOCK_GENERATED")
    /\ ocr_pc' = "idle"
    /\ ocr_queue' = Tail(ocr_queue)
    /\ feedLog' = [ NoFeedLog EXCEPT !.kind = "ocr_done", !.outcome = Head(ocr_queue),
                                     !.open = IsMarketOpen(now),
                                     !.mode_before = market_mode,
                                     !.weekend_before = weekend_buffer,
                                     !.price_before = current_price ]
    /\ lastRead' = NoRead
    /\ UNCHANGED << now, riskVars, analysisVars, symbol_set, running, market_mode, historical_buffer,
                 friday_close_price, price_tracker, lock, threads, data_thread, updating,
                 executor_down, friday_file, weekend_file, main_pc, reader,
                 stableHist >>

ReaderOps == { "get_current_data", "get_weekend_context", "get_buffer_status" }

\* "with self._lock" of a reader
ReaderMayEnter == lock = "none"

\* a reader enters its locked block
ReaderEnter ==
    /\ reader.pc = "out"
    /\ ReaderMayEnter
    /\ \E op \in ReaderOps :
          reader' = [ pc |-> "in", op |-> op, mode_at_entry |-> market_mode ]
    /\ lock' = "reader"
    /\ lastRead' = NoRead
    /\ feedLog' = NoFeedLog
    /\ UNCHANGED << now, riskVars, analysisVars, symbol_set, running, market_mode, historical_buffer,
                 weekend_buffer, current_price, friday_close_price, price_tracker,
                 threads, data_thread, updating, ocr_queue, ocr_pc, executor_down,
                 friday_file, weekend_file, main_pc, stableHist >>

LastN(seq, n) == IF Len(seq) > n THEN SubSeq(seq, Len(seq) - n + 1, Len(seq)) ELSE seq

Closes(buf) == [ k \in 1..Len(buf) |-> buf[k].close ]

\* the rows get_current_data builds from a buffer
Rows(buf) == [ k \in 1..Len(buf) |-> [ close |-> buf[k].close, source |-> buf[k].source ] ]

CurrentDataBuffer_ByMode ==
    IF market_mode = "weekend_otc" THEN weekend_buffer ELSE historical_buffer

\* the buffer get_current_data reads
CurrentDataBuffer == historical_buffer

\* what the reader's block returns from the state it sees; get_buffer_status
\* raises on self.symbol when the instance has no such attribute
ReadResult(op) ==
    [ called |-> TRUE, op |-> op,
      raised |-> (op = "get_buffer_status" /\ ~symbol_set),
      data |-> IF op = "get_current_data" THEN Rows(CurrentDataBuffer) ELSE << >>,
      historical_size |-> IF op = "get_weekend_context" THEN 0 ELSE Len(historical_buffer),
      market_mode |-> IF op = "get_current_data" THEN "" ELSE market_mode,
      weekend_prices |-> IF op = "get_weekend_context"
                         THEN LastN(Closes(weekend_buffer), weekend_prices_kept)
                         ELSE << >>,
      weekend_count |-> IF op = "get_current_data" THEN 0 ELSE Len(weekend_buffer),
      current_price |-> IF op = "get_current_data" THEN 0 ELSE current_price,
      friday_close |-> IF op = "get_current_data" THEN 0 ELSE friday_close_price ]

\* the reader's block ends and the lock is released
ReaderLeave ==
    /\ reader.pc = "in"
    /\ lastRead' = ReadResult(reader.op)
    /\ reader' = NoReader
    /\ lock' = "none"
    /\ feedLog' = NoFeedLog
    /\ UNCHANGED << now, riskVars, analysisVars, symbol_set, running, market_mode, historical_buffer,
                 weekend_buffer, current_price, friday_close_price, price_tracker,
                 threads, data_thread, updating, ocr_queue, ocr_pc, executor_down,
                 friday_file, weekend_file, main_pc, stableHist >>

\* stop_stream up to the join
StopStream ==
    /\ main_pc = "idle"
    /\ running
    /\ running' = FALSE
    /\ main_pc' = "joining"
    /\ lastRead' = NoRead
    /\ feedLog' = NoFeedLog
    /\ UNCHANGED << symbol_set, market_mode, historical_buffer, weekend_buffer,
                 current_price, friday_close_price, price_tracker, lock, threads,
                 data_thread, updating, ocr_queue, ocr_pc, executor_down, friday_file,
                 weekend_file, reader, stableHist >>

\* stop_stream called on its own, up to the join
StopBegin == StopStream /\ UNCHANGED << now, riskVars, analysisVars >>

\* stop_stream after join(timeout=2) returned, the thread having ended or not:
\* the weekend buffer is saved when the mode is weekend_otc
StopSave ==
    /\ main_pc = "joining"
    /\ IF market_mode = "weekend_otc" /\ weekend_buffer # << >>
       THEN weekend_file' = Some(weekend_buffer)
       ELSE UNCHANGED weekend_file
    /\ main_pc' = "closing"
    /\ lastRead' = NoRead
    /\ feedLog' = [ NoFeedLog EXCEPT !.kind = "stop", !.mode_before = market_mode,
                                     !.weekend_before = weekend_buffer ]
    /\ UNCHANGED << now, riskVars, analysisVars, symbol_set, running, market_mode, historical_buffer,
                 weekend_buffer, current_price, friday_close_price, price_tracker,
                 lock, threads, data_thread, updating, ocr_queue, ocr_pc,
                 executor_down, friday_file, reader, stableHist >>

\* price_tracker.close(): shutdown(wait=True) returns once every submitted job
\* and its callback has run
StopClose ==
    /\ main_pc = "closing"
    /\ ocr_queue = << >> /\ ocr_pc = "idle"
    /\ executor_down' = TRUE
    /\ main_pc' = "idle"
    /\ lastRead' = NoRead
    /\ feedLog' = NoFeedLog
    /\ UNCHANGED << now, riskVars, analysisVars, symbol_set, running, market_mode, historical_buffer,
                 weekend_buffer, current_price, friday_close_price, price_tracker,
                 lock, threads, data_thread, updating, ocr_queue, ocr_pc, friday_file,
                 weekend_file, reader, stableHist >>

FeedCommon ==
    \/ FeedTick
    \/ start_stream
    \/ StopBegin
    \/ StopSave
    \/ StopClose
    \/ ReaderEnter
    \/ ReaderLeave
    \/ OcrComplete
    \/ \E i \in ThreadIds :
          \/ ThreadExit(i)
          \/ LiveCycleSwitch(i)
          \/ LiveCycleNoData(i)
          \/ OtcCycleSwitch(i)
          \/ OtcCaptureFailed(i)
          \/ OtcSubmit(i)
          \/ OtcSubmitRefused(i)

\* the stream as constructed: no symbol attribute
FeedNext ==
    \/ FeedCommon
    \/ OcrExcept
    \/ \E i \in ThreadIds : OtcExcept(i)

\* the stream after its caller has assigned the symbol attribute
FeedNextAssigned ==
    \/ FeedCommon
    \/ \E i \in ThreadIds :
          \/ LiveCycleBegin(i)
          \/ UpdateAppend(i)
          \/ UpdateFinish(i)

\* ------------------------------------------ TechnicalAnalyzer (CAPA 2)
\* RSI is a whole number of points; the price and the bands are in pips;
\* micro_volatility is in hundredths of a pip and gap_friday in hundredths of
\* a percent (the code rounds them to 2 and 4 decimals).

weekend_volatility_threshold == 1500
weekend_rsi_high == 75
weekend_rsi_low == 25
significant_gap_threshold == 50

\* dict.get(key, default) on a dict carried as a function
Get(dict, key, default) == IF key \in DOMAIN dict THEN dict[key] ELSE default

Abs(x) == IF x < 0 THEN 0 - x ELSE x

\* a float that is not a number (0.0 / 0.0 in pandas); every ordered
\* comparison with it is False
NaN == 0 - 1000000
FGt(a, b) == a # NaN /\ b # NaN /\ a > b
FLt(a, b) == a # NaN /\ b # NaN /\ a < b
FGe(a, b) == a # NaN /\ b # NaN /\ a >= b
FLe(a, b) == a # NaN /\ b # NaN /\ a <= b

GateRsi == { NaN, 20, 25, 50, 75, 76, 95 }
GateBands == [ bb_upper |-> default_mock_price + 2, bb_lower |-> default_mock_price - 2 ]
\* the closes of df, last one read by the gate; << >> is an empty frame
GateFrames ==
    { << >> } \cup { << c >> : c \in (default_mock_price - 3)..(default_mock_price + 3) }
GateMicroVolatility == { 0, 1499, 1500, 1501, 2000 }
GateGaps == { 0 - 51, 0 - 50, 0, 50, 51 }
\* micro_features as _calculate_micro_features builds it, and dicts lacking a key
GateMicroFeatures ==
    { [ micro_volatility |-> v, gap_friday |-> g ] : v \in GateMicroVolatility, g \in GateGaps }
    \cup { [ gap_friday |-> g ] : g \in GateGaps }
    \cup { [ micro_volatility |-> v ] : v \in GateMicroVolatility }

ShouldWakeAiWeekend_NoVeto(indicators, df, micro_features) ==
    IF df = << >> THEN FALSE
    ELSE \/ FGt(indicators.rsi, weekend_rsi_high) \/ FLt(indicators.rsi, weekend_rsi_low)
         \/ Last(df) >= indicators.bb_upper \/ Last(df) <= indicators.bb_lower
         \/ Abs(Get(micro_features, "gap_friday", 0)) > significant_gap_threshold

ShouldWakeAiWeekend_Rsi65(indicators, df, micro_features) ==
    IF Get(micro_features, "micro_volatility", 0) > weekend_volatility_threshold
    THEN FALSE
    ELSE IF df = << >> THEN FALSE
    ELSE \/ FGt(indicators.rsi, 65) \/ FLt(indicators.rsi, 35)
         \/ Last(df) >= indicators.bb_upper \/ Last(df) <= indicators.bb_lower
         \/ Abs(Get(micro_features, "gap_friday", 0)) > significant_gap_threshold

\* should_wake_ai_weekend: the veto returns before df is read; reading the
\* last close of an empty frame raises, and the except branch returns False
ShouldWakeAiWeekend(indicators, df, micro_features) ==
    IF Get(micro_features, "micro_volatility", 0) > weekend_volatility_threshold
    THEN FALSE
    ELSE IF df = << >> THEN FALSE
    ELSE \/ FGt(indicators.rsi, weekend_rsi_high) \/ FLt(indicators.rsi, weekend_rsi_low)
         \/ Last(df) >= indicators.bb_upper \/ Last(df) <= indicators.bb_lower
         \/ Abs(Get(micro_features, "gap_friday", 0)) > significant_gap_threshold

\* round(x, k) on the fraction n / d, d > 0: the nearest whole number, a tie
\* going to the even one
RoundHalfEven(n, d) ==
    LET q == n \div d
        r == n - q * d
    IN  IF 2 * r < d THEN q
        ELSE IF 2 * r > d THEN q + 1
        ELSE IF q % 2 = 0 THEN q ELSE q + 1

gap_decimals_scale == 10000

\* gap_friday of _calculate_micro_features, in percent, as the fraction
\* num / den; prices are in pips. With fewer than two weekend prices the
\* quotient is returned as computed, otherwise it is rounded to 4 decimals.
GapFriday(weekend_prices, friday_close, price) ==
    IF Len(weekend_prices) < 2
    THEN IF friday_close = 0
         THEN [ num |-> 0, den |-> 1 ]
         ELSE [ num |-> (price - friday_close) * 100, den |-> friday_close ]
    ELSE IF friday_close > 0 /\ price > 0
         THEN [ num |-> RoundHalfEven((price - friday_close) * 100 * gap_decimals_scale,
                                      friday_close),
                den |-> gap_decimals_scale ]
         ELSE [ num |-> 0, den |-> 1 ]

\* should_wake_ai_weekend reaches its except branch: past the veto,
\* df['close'].iloc[-1] finds no row
ShouldWakeAiWeekendRaises(indicators, df, micro_features) ==
    /\ ~(Get(micro_features, "micro_volatility", 0) > weekend_volatility_threshold)
    /\ df = << >>

live_rsi_high == 70
live_rsi_low == 30

\* df as should_wake_ai reads it: the columns it holds, each a sequence
WakeRsi == { NaN, 25, 30, 50, 68, 70, 71, 76 }
WakeCloses == { default_mock_price - 3, default_mock_price - 2, default_mock_price,
                default_mock_price + 2 }
WakeVolumes == { 0, 150, 151 }
WakeVolumeSma == { 0, 100 }
WakeFrames ==
    { [ close |-> << c >>, volume |-> << v >> ] : c \in WakeCloses, v \in WakeVolumes }
    \cup { [ close |-> << >>, volume |-> << >> ] }
    \cup { [ close |-> << c >> ] : c \in WakeCloses }
    \cup { [ volume |-> << v >> ] : v \in WakeVolumes }

\* should_wake_ai reaches its except branch: a column is missing or has no row
ShouldWakeAiRaises(indicators, df) ==
    \/ "close" \notin DOMAIN df
    \/ "volume" \notin DOMAIN df
    \/ df.close = << >>
    \/ df.volume = << >>

ShouldWakeAi_AllRequired(indicators, df) ==
    IF ShouldWakeAiRaises(indicators, df) THEN TRUE
    ELSE /\ FGt(indicators.rsi, live_rsi_high) \/ FLt(indicators.rsi, live_rsi_low)
         /\ FGe(Last(df.close), indicators.bb_upper) \/ FLe(Last(df.close), indicators.bb_lower)
         /\ FGt(2 * Last(df.volume), 3 * indicators.volume_sma)

ShouldWakeAi_FailClosed(indicators, df) ==
    IF ShouldWakeAiRaises(indicators, df) THEN FALSE
    ELSE \/ FGt(indicators.rsi, live_rsi_high) \/ FLt(indicators.rsi, live_rsi_low)
         \/ FGe(Last(df.close), indicators.bb_upper) \/ FLe(Last(df.close), indicators.bb_lower)
         \/ FGt(2 * Last(df.volume), 3 * indicators.volume_sma)

\* should_wake_ai; current_volume > volume_sma * 1.5 is compared as
\* 2 * current_volume > 3 * volume_sma
ShouldWakeAi(indicators, df) ==
    IF ShouldWakeAiRaises(indicators, df) THEN TRUE
    ELSE \/ FGt(indicators.rsi, live_rsi_high) \/ FLt(indicators.rsi, live_rsi_low)
         \/ FGe(Last(df.close), indicators.bb_upper) \/ FLe(Last(df.close), indicators.bb_lower)
         \/ FGt(2 * Last(df.volume), 3 * indicators.volume_sma)

NoGateCall ==
    [ called |-> FALSE, rsi |-> 0, df |-> << >>, micro_features |-> << >>, result |-> FALSE,
      raised |-> FALSE ]

NoWakeCall ==
    [ called |-> FALSE, indicators |-> [ rsi |-> 0, bb_upper |-> 0, bb_lower |-> 0,
                                         volume_sma |-> 0 ],
      df |-> [ close |-> << >>, volume |-> << >> ], result |-> FALSE, raised |-> FALSE ]

GateInit == gate_call = NoGateCall /\ wake_call = NoWakeCall

should_wake_ai_weekend ==
    /\ \E rsi \in GateRsi, df \in GateFrames, micro_features \in GateMicroFeatures :
          gate_call' =
             [ called |-> TRUE, rsi |-> rsi, df |-> df, micro_features |-> micro_features,
               result |-> ShouldWakeAiWeekend([ rsi |-> rsi, bb_upper |-> GateBands.bb_upper,
                                                bb_lower |-> GateBands.bb_lower ],
                                              df, micro_features),
               raised |-> ShouldWakeAiWeekendRaises([ rsi |-> rsi,
                                                      bb_upper |-> GateBands.bb_upper,
                                                      bb_lower |-> GateBands.bb_lower ],
                                                    df, micro_features) ]
    /\ wake_call' = NoWakeCall
    /\ UNCHANGED << now, riskVars, feedVars, memVars, analyzerVars, pipelineVars >>

should_wake_ai ==
    /\ \E rsi \in WakeRsi, volume_sma \in WakeVolumeSma, df \in WakeFrames :
          LET indicators == [ rsi |-> rsi, bb_upper |-> GateBands.bb_upper,
                              bb_lower |-> GateBands.bb_lower, volume_sma |-> volume_sma ]
          IN  wake_call' = [ called |-> TRUE, indicators |-> indicators, df |-> df,
                             result |-> ShouldWakeAi(indicators, df),
                             raised |-> ShouldWakeAiRaises(indicators, df) ]
    /\ gate_call' = NoGateCall
    /\ UNCHANGED << now, riskVars, feedVars, memVars, analyzerVars, pipelineVars >>

GateNext == should_wake_ai_weekend \/ should_wake_ai

\* ------------------------------- TechnicalAnalyzer: the indicators
\* A history is a frame of columns, each a sequence with one entry per
\* candle. Closes are in pips. The histories are chosen so that every
\* indicator computed from them is a whole number: the mean and the sample
\* standard deviation of the last 20 closes in pips, the RSI in points.

min_candles == 20
rsi_period == 14
bb_period == 20
bb_std_dev == 2
neutral_rsi == 50

RECURSIVE SeqSum(_)
SeqSum(seq) == IF seq = << >> THEN 0 ELSE Head(seq) + SeqSum(Tail(seq))

\* n / d where the quotient is a whole number
ExactDiv(n, d) == CHOOSE q \in { n \div d } : q * d = n

\* the non-negative whole number whose square is n
ExactSqrt(n) == CHOOSE r \in 0..n : r * r = n

\* the last 20 closes of a history, as pips above the base price
Flat == [ k \in 1..20 |-> 0 ]
Quiet == << 0, 0, 0, 0, 0, 0, 0, 0, 0, 0, 0, 0, 0, 0 - 1, 6, 0 - 6, 0 - 1, 1, 1, 0 >>
Breakout == << 0, 0, 0, 0, 0, 0, 0, 0, 0, 0, 0, 0, 0, 0, 1, 1, 0 - 1, 0 - 6, 0 - 1, 6 >>
Oversold == << 0, 0, 0 - 1, 0 - 6, 1, 6, 0 - 1, 1, 0, 0, 0, 0, 0, 0, 0, 0, 0, 0, 0, 0 >>
Shapes == { Flat, Quiet, Breakout, Oversold }

HistoryLengths == { 0, 19, 20, 49, 50 }
base_volume == 100
LastVolumes == { 100, 160 }

\* n candles: the shape at the end, the base price before it
HistoryCloses(shape, n) ==
    [ k \in 1..n |-> IF k > n - 20 /\ k - (n - 20) >= 1
                     THEN default_mock_price + shape[k - (n - 20)]
                     ELSE default_mock_price ]

HistoryVolumes(last, n) == [ k \in 1..n |-> IF k = n THEN last ELSE base_volume ]

Histories ==
    { [ close |-> HistoryCloses(shape, n), volume |-> HistoryVolumes(last, n) ] :
         shape \in Shapes, n \in HistoryLengths, last \in LastVolumes }
    \cup { [ volume |-> HistoryVolumes(last, 20) ] : last \in LastVolumes }

\* len(df): the number of rows
FrameLen(df) == IF DOMAIN df = { } THEN 0 ELSE Len(df[CHOOSE c \in DOMAIN df : TRUE])

\* calculate_rsi: the rolling means of the gains and of the losses over the
\* last 14 differences; 0 / 0 is NaN, gain / 0 is inf and gives 100
CalculateRsi(prices) ==
    IF Len(prices) < rsi_period + 1
    THEN neutral_rsi
    ELSE LET w    == LastN(prices, rsi_period + 1)
             gain == SeqSum([ k \in 1..rsi_period |->
                                 IF w[k + 1] - w[k] > 0 THEN w[k + 1] - w[k] ELSE 0 ])
             loss == SeqSum([ k \in 1..rsi_period |->
                                 IF w[k + 1] - w[k] < 0 THEN w[k] - w[k + 1] ELSE 0 ])
         IN  IF loss = 0
             THEN (IF gain = 0 THEN NaN ELSE 100)
             ELSE ExactDiv(100 * gain, gain + loss)

SeqMean(seq) == ExactDiv(SeqSum(seq), Len(seq))

\* Series.std(): the sample standard deviation (ddof = 1)
SeqStd(seq) ==
    LET m == SeqMean(seq)
    IN  ExactSqrt(ExactDiv(SeqSum([ k \in 1..Len(seq) |-> (seq[k] - m) * (seq[k] - m) ]),
                           Len(seq) - 1))

\* calculate_bollinger_bands, called with 20 prices or more
CalculateBollingerBands(prices) ==
    LET w == LastN(prices, bb_period)
    IN  [ bb_upper  |-> SeqMean(w) + SeqStd(w) * bb_std_dev,
          bb_middle |-> SeqMean(w),
          bb_lower  |-> SeqMean(w) - SeqStd(w) * bb_std_dev ]

\* calculate_bb_position, as the fraction num / den
CalculateBbPosition(price, bb_upper, bb_lower) ==
    IF bb_upper = bb_lower
    THEN [ num |-> 1, den |-> 2 ]
    ELSE IF price <= bb_lower THEN [ num |-> 0, den |-> 1 ]
    ELSE IF price >= bb_upper THEN [ num |-> 1, den |-> 1 ]
    ELSE [ num |-> price - bb_lower, den |-> bb_upper - bb_lower ]

\* the TechnicalIndicators the gates and the claims read
ComputeIndicators(df) ==
    LET bands == CalculateBollingerBands(df.close)
    IN  [ rsi |-> CalculateRsi(df.close),
          bb_upper |-> bands.bb_upper, bb_middle |-> bands.bb_middle,
          bb_lower |-> bands.bb_lower,
          bb_position |-> CalculateBbPosition(Last(df.close), bands.bb_upper, bands.bb_lower),
          volume_sma |-> SeqMean(LastN(df.volume, 20)) ]

\* analyze_market_data reaches its except branch: a column is missing
AnalyzeRaises(df) ==
    /\ FrameLen(df) >= min_candles
    /\ DOMAIN df # { "close", "volume" }

\* analyze_market_data: what it returns (None is no result) and what it
\* leaves in last_analysis
AnalyzeMarketData(df, last) ==
    IF FrameLen(df) < min_candles
    THEN [ result |-> None, last_analysis |-> last ]
    ELSE IF AnalyzeRaises(df)
    THEN [ result |-> last, last_analysis |-> last ]
    ELSE [ result |-> Some(ComputeIndicators(df)),
           last_analysis |-> Some(ComputeIndicators(df)) ]

NoAnalysisCall ==
    [ called |-> FALSE, df |-> [ close |-> << >>, volume |-> << >> ], last_before |-> None,
      result |-> None, raised |-> FALSE ]

AnalyzerInit == last_analysis = None /\ analysis_call = NoAnalysisCall

analyze_market_data ==
    /\ \E df \in Histories :
          /\ analysis_call' = [ called |-> TRUE, df |-> df, last_before |-> last_analysis,
                                result |-> AnalyzeMarketData(df, last_analysis).result,
                                raised |-> AnalyzeRaises(df) ]
          /\ last_analysis' = AnalyzeMarketData(df, last_analysis).last_analysis
    /\ UNCHANGED << now, riskVars, feedVars, gateVars, memVars, pipelineVars >>

AnalyzerNext == analyze_market_data

\* --------------------------------------------- ErrorMemoryRAG (CAPA 3)
\* A row of the outcome log carries the columns the analysis reads. Its
\* timestamp is carried as its age in hours at the time of the call.

MaxLogRows == 5

lookback_hours == 24
high_confidence == 85
max_confidence_penalty == 40
neutral_penalty == 30

LogRows ==
    { [ age_hours |-> 1, outcome |-> "LOSS", signal |-> "CALL",
        market_state |-> "OTC_ESTIMATED", technical_trigger |-> "RSI_EXTREME",
        ai_confidence |-> 90 ],
      [ age_hours |-> 24, outcome |-> "LOSS", signal |-> "PUT",
        market_state |-> "REAL", technical_trigger |-> "BB_BREAKOUT",
        ai_confidence |-> 60 ],
      [ age_hours |-> 25, outcome |-> "LOSS", signal |-> "CALL",
        market_state |-> "OTC_ESTIMATED", technical_trigger |-> "RSI_EXTREME",
        ai_confidence |-> 90 ],
      [ age_hours |-> 1, outcome |-> "WIN", signal |-> "CALL",
        market_state |-> "OTC_ESTIMATED", technical_trigger |-> "RSI_EXTREME",
        ai_confidence |-> 90 ] }

\* current_context as the caller passes it; a dict may lack any of the keys
Contexts ==
    { [ signal |-> "CALL", market_state |-> "OTC_ESTIMATED", technical_trigger |-> "RSI_EXTREME" ],
      [ signal |-> "CALL", market_state |-> "REAL", technical_trigger |-> "BB_BREAKOUT" ],
      [ signal |-> "PUT", market_state |-> "REAL", technical_trigger |-> "BB_BREAKOUT" ],
      [ signal |-> "PUT", market_state |-> "OTC_ESTIMATED", technical_trigger |-> "VOLUME_SPIKE" ],
      [ signal |-> "NEUTRAL" ],
      [ market_state |-> "OTC_ESTIMATED", technical_trigger |-> "RSI_EXTREME" ] }

Min(a, b) == IF a < b THEN a ELSE b

NoLogFile == [ exists |-> FALSE, rows |-> << >> ]

\* Series.value_counts() of one column
ValueCounts(rows, column) ==
    [ v \in { rows[k][column] : k \in 1..Len(rows) } |->
         Cardinality({ k \in 1..Len(rows) : rows[k][column] = v }) ]

\* Series.max() of a value_counts(); 0 stands for the NaN of an empty one
MaxCount(counts) ==
    IF DOMAIN counts = {} THEN 0
    ELSE CHOOSE n \in { counts[v] : v \in DOMAIN counts } :
            \A v \in DOMAIN counts : counts[v] <= n

IsRecentLoss(row) == row.age_hours <= lookback_hours /\ row.outcome = "LOSS"

\* _extract_error_patterns; risk_factors carries the kind of each pattern found
ExtractErrorPatterns(losses) ==
    LET signal_errors == ValueCounts(losses, "signal")
        market_errors == ValueCounts(losses, "market_state")
        trigger_errors == ValueCounts(losses, "technical_trigger")
        high_conf_errors == Len(SelectSeq(losses, LAMBDA r : r.ai_confidence >= high_confidence))
        p1 == IF MaxCount(signal_errors) >= 3 THEN << "repeated_signal_failures" >> ELSE << >>
        p2 == IF Get(market_errors, "OTC_ESTIMATED", 0) >= 2
              THEN << "otc_market_failures" >> ELSE << >>
        p3 == IF MaxCount(trigger_errors) >= 2 THEN << "trigger_failures" >> ELSE << >>
        p4 == IF high_conf_errors >= 2 THEN << "overconfidence_bias" >> ELSE << >>
    IN [ risk_factors |-> p1 \o p2 \o p3 \o p4,
         total_recent_losses |-> Len(losses),
         signal_distribution |-> signal_errors,
         market_distribution |-> market_errors,
         trigger_distribution |-> trigger_errors,
         high_confidence_failures |-> high_conf_errors ]

\* analyze_recent_errors
AnalyzeRecentErrors(file) ==
    IF ~file.exists
    THEN [ risk_factors |-> << >> ]
    ELSE LET recent_losses == SelectSeq(file.rows, IsRecentLoss)
         IN IF recent_losses = << >>
            THEN [ risk_factors |-> << >>, total_recent_losses |-> 0 ]
            ELSE ExtractErrorPatterns(recent_losses)

\* the penalty calculate_risk_adjustment accumulates before the cap
BasePenalty(current_context, error_memory) ==
    LET total_losses == Get(error_memory, "total_recent_losses", 0)
        current_signal == Get(current_context, "signal", "")
        signal_dist == Get(error_memory, "signal_distribution", << >>)
        current_market == Get(current_context, "market_state", "REAL")
        otc_failures == Get(Get(error_memory, "market_distribution", << >>), "OTC_ESTIMATED", 0)
        current_trigger == Get(current_context, "technical_trigger", "")
        trigger_dist == Get(error_memory, "trigger_distribution", << >>)
        high_conf_failures == Get(error_memory, "high_confidence_failures", 0)
    IN (IF total_losses >= 5 THEN 15 ELSE IF total_losses >= 3 THEN 10 ELSE 0)
       + (IF current_signal \in DOMAIN signal_dist /\ signal_dist[current_signal] >= 2
          THEN 20 ELSE 0)
       + (IF current_market = "OTC_ESTIMATED" /\ otc_failures >= 2 THEN 15 ELSE 0)
       + (IF current_trigger \in DOMAIN trigger_dist /\ trigger_dist[current_trigger] >= 2
          THEN 12 ELSE 0)
       + (IF high_conf_failures >= 2 THEN 8 ELSE 0)

CalculateRiskAdjustment_NeutralAtCap(current_context, error_memory) ==
    [ confidence_penalty |->
         Min(BasePenalty(current_context, error_memory), max_confidence_penalty),
      should_be_neutral |->
         BasePenalty(current_context, error_memory) >= max_confidence_penalty ]

CalculateRiskAdjustment_NoCap(current_context, error_memory) ==
    [ confidence_penalty |-> BasePenalty(current_context, error_memory),
      should_be_neutral |-> BasePenalty(current_context, error_memory) >= neutral_penalty ]

\* calculate_risk_adjustment
CalculateRiskAdjustment(current_context, error_memory) ==
    [ confidence_penalty |->
         Min(BasePenalty(current_context, error_memory), max_confidence_penalty),
      should_be_neutral |-> BasePenalty(current_context, error_memory) >= neutral_penalty ]

NoMemCall ==
    [ called |-> FALSE, context |-> << >>, error_memory |-> << >>,
      result |-> [ confidence_penalty |-> 0, should_be_neutral |-> FALSE ] ]

\* the penalties calculate_risk_adjustment can return, among them 0, the
\* neutral threshold and the cap
Penalties == { 0, 10, 25, 30, 35, 40 }

\* risk_adjustment dicts as calculate_risk_adjustment builds them
Adjustments ==
    { [ confidence_penalty |-> p, should_be_neutral |-> p >= neutral_penalty,
        risk_reasons |-> IF p = 0 THEN << >> ELSE << "perdidas recientes" >> ] :
      p \in Penalties }

\* the reply of the model as a dict: signal, confidence_score and reason, any
\* of which a reply may lack
Responses ==
    { [ signal |-> sg, confidence_score |-> c, risk_adjustment_reason |-> "reason" ] :
      sg \in { "CALL", "PUT", "NEUTRAL" }, c \in { 40, 45, 50, 60, 80, 100 } }
    \cup { [ signal |-> "CALL" ], [ confidence_score |-> 80 ] }

Max(a, b) == IF a > b THEN a ELSE b

min_adjusted_confidence == 45
max_neutral_confidence == 55
default_confidence == 50

\* dict[key] = value on a dict carried as a function
Put(dict, key, value) ==
    [ k \in DOMAIN dict \cup { key } |-> IF k = key THEN value ELSE dict[k] ]

ApplyMemoryAdjustments_NoFloor(response, risk_adjustment) ==
    LET penalty == Get(risk_adjustment, "confidence_penalty", 0)
        adjusted == Get(response, "confidence_score", default_confidence) - penalty
    IN IF Get(risk_adjustment, "should_be_neutral", FALSE)
       THEN Put(Put(response, "signal", "NEUTRAL"), "confidence_score",
                Min(adjusted, max_neutral_confidence))
       ELSE Put(response, "confidence_score", adjusted)

ApplyMemoryAdjustments_AddsPenalty(response, risk_adjustment) ==
    LET penalty == Get(risk_adjustment, "confidence_penalty", 0)
        adjusted == Max(Get(response, "confidence_score", default_confidence) + penalty,
                        min_adjusted_confidence)
    IN IF Get(risk_adjustment, "should_be_neutral", FALSE)
       THEN Put(Put(response, "signal", "NEUTRAL"), "confidence_score",
                Min(adjusted, max_neutral_confidence))
       ELSE Put(response, "confidence_score", adjusted)

ApplyMemoryAdjustments_IgnoresNeutral(response, risk_adjustment) ==
    Put(response, "confidence_score",
        Max(Get(response, "confidence_score", default_confidence)
              - Get(risk_adjustment, "confidence_penalty", 0),
            min_adjusted_confidence))

\* _apply_memory_adjustments; the reason is carried as the pair of the reply's
\* reason and the memory's reasons
ApplyMemoryAdjustments(response, risk_adjustment) ==
    LET penalty == Get(risk_adjustment, "confidence_penalty", 0)
        original_confidence == Get(response, "confidence_score", default_confidence)
        adjusted_confidence == Max(original_confidence - penalty, min_adjusted_confidence)
        neutral == Get(risk_adjustment, "should_be_neutral", FALSE)
        r1 == IF neutral THEN Put(response, "signal", "NEUTRAL") ELSE response
        r2 == Put(r1, "confidence_score",
                  IF neutral THEN Min(adjusted_confidence, max_neutral_confidence)
                  ELSE adjusted_confidence)
        memory_reasons == Get(risk_adjustment, "risk_reasons", << >>)
    IN IF memory_reasons # << >>
       THEN Put(r2, "risk_adjustment_reason",
                << Get(response, "risk_adjustment_reason", ""), memory_reasons >>)
       ELSE r2

NoAdjCall == [ called |-> FALSE, response |-> << >>, risk_adjustment |-> << >>, result |-> << >> ]

MemInit == csv_file = NoLogFile /\ mem_call = NoMemCall /\ adj_call = NoAdjCall

\* a row is added to the outcome log by whoever keeps it; the file is created
\* by the first one
WriteOutcome ==
    /\ Len(csv_file.rows) < MaxLogRows
    /\ \E row \in LogRows :
          csv_file' = [ exists |-> TRUE, rows |-> Append(csv_file.rows, row) ]
    /\ mem_call' = NoMemCall
    /\ adj_call' = NoAdjCall
    /\ UNCHANGED << now, riskVars, feedVars, gateVars, analyzerVars, pipelineVars >>

\* analyze_recent_errors followed by calculate_risk_adjustment on its result
calculate_risk_adjustment ==
    /\ \E current_context \in Contexts :
          LET error_memory == AnalyzeRecentErrors(csv_file)
          IN mem_call' = [ called |-> TRUE, context |-> current_context,
                           error_memory |-> error_memory,
                           result |-> CalculateRiskAdjustment(current_context, error_memory) ]
    /\ adj_call' = NoAdjCall
    /\ UNCHANGED << now, riskVars, feedVars, gateVars, analyzerVars, pipelineVars, csv_file >>

\* _apply_memory_adjustments(response, risk_adjustment), for responses of
\* the given set
ApplyAdjustmentsTo(responses) ==
    /\ \E response \in responses, risk_adjustment \in Adjustments :
          adj_call' = [ called |-> TRUE, response |-> response,
                        risk_adjustment |-> risk_adjustment,
                        result |-> ApplyMemoryAdjustments(response, risk_adjustment) ]
    /\ mem_call' = NoMemCall
    /\ UNCHANGED << now, riskVars, feedVars, gateVars, analyzerVars, pipelineVars, csv_file >>

apply_memory_adjustments == ApplyAdjustmentsTo(Responses)

MemNext == WriteOutcome \/ calculate_risk_adjustment

AdjustNext == apply_memory_adjustments

\* the response _apply_memory_adjustments returned last is handed to
\* check_risk_approval: its signal as the decision, its confidence_score as
\* the confidence
check_adjusted_response ==
    /\ adj_call.called
    /\ "signal" \in DOMAIN adj_call.result
    /\ CheckRiskApproval({ adj_call.result.signal }, { adj_call.result.confidence_score },
                         Volatilities)

\* replies of high and of low confidence, with each signal and without one
CheckedResponses ==
    { [ signal |-> "CALL", confidence_score |-> 100, risk_adjustment_reason |-> "reason" ],
      [ signal |-> "PUT", confidence_score |-> 60, risk_adjustment_reason |-> "reason" ],
      [ signal |-> "NEUTRAL", confidence_score |-> 50, risk_adjustment_reason |-> "reason" ],
      [ confidence_score |-> 80 ] }

adjust_checked_response == ApplyAdjustmentsTo(CheckedResponses)

\* losses recorded up to either limit
record_losses == RecordTradeResult({ "LOSS" }, Amounts, MaxTrades)

\* the risk manager in every state the losses of a day and the cooldown of
\* its own checks lead to, asked about adjusted responses
AdjustedRiskNext ==
    \/ record_losses
    \/ adjust_checked_response
    \/ check_adjusted_response

\* ------------------------------ QuantitativeProbabilityEngine (CAPA 2)
\* Signals, bb_position, zscore and volume_ratio are in hundredths; the
\* volatility percentile and the support/resistance score are in points.
\* A score is in hundredths of a point, a weight in hundredths, and the
\* total in ten-thousandths of a point.

score_scale == 100
max_score == 100 * score_scale
mid_score == 50 * score_scale
zscore_cap == 50 * score_scale

\* indicator values inside their nominal range and far outside it
ScoreSignals == { 0 - 300, 0, 300 }
ScoreSignalPairs == { 0 - 300, 300 }
ScoreBbPositions == { 0 - 200, 50 }
ScoreVolumeRatios == { 0 - 100, 100, 500 }
ScorePercentiles == { 0 - 50, 150 }
ScoreStructures == { 0 - 10, 50, 150 }
ScoreIndicators ==
    [ ema_signal : ScoreSignals, vwap_signal : { 0 },
      rsi_normalized : ScoreSignalPairs, momentum_normalized : { 0 },
      bb_position : ScoreBbPositions, zscore : { 0 - 1000 },
      volume_ratio : ScoreVolumeRatios, volatility_percentile : ScorePercentiles,
      support_resistance_score : ScoreStructures ]

\* weights that sum to 1
ScoreWeights ==
    { [ trend |-> 25, momentum |-> 20, mean_reversion |-> 15, volume |-> 15,
        volatility |-> 10, structure |-> 15 ],
      [ trend |-> 0, momentum |-> 0, mean_reversion |-> 0, volume |-> 50,
        volatility |-> 0, structure |-> 50 ] }

\* calculate_probability_scores: the six scores and the weighted total
CalculateProbabilityScores(indicators, weights) ==
    LET trend_score ==
            Max(0, Min(max_score, mid_score + 25 * indicators.ema_signal
                                              + 25 * indicators.vwap_signal))
        momentum_score ==
            Max(0, Min(max_score, mid_score + 15 * indicators.rsi_normalized
                                              + 25 * indicators.momentum_normalized))
        mean_reversion_score ==
            Max(0, Min(max_score, 100 * Abs(indicators.bb_position - 50)
                                    + Min(20 * Abs(indicators.zscore), zscore_cap)))
        volume_score == Min(50 * indicators.volume_ratio, max_score)
        volatility_score ==
            Max(0, Min(max_score, max_score - score_scale * indicators.volatility_percentile))
        structure_score == score_scale * indicators.support_resistance_score
    IN  [ trend_score |-> trend_score, momentum_score |-> momentum_score,
          mean_reversion_score |-> mean_reversion_score, volume_score |-> volume_score,
          volatility_score |-> volatility_score, structure_score |-> structure_score,
          total_score |-> trend_score * weights.trend + momentum_score * weights.momentum
                          + mean_reversion_score * weights.mean_reversion
                          + volume_score * weights.volume
                          + volatility_score * weights.volatility
                          + structure_score * weights.structure ]

NoScoreCall ==
    [ called |-> FALSE,
      indicators |-> [ ema_signal |-> 0, vwap_signal |-> 0, rsi_normalized |-> 0,
                       momentum_normalized |-> 0, bb_position |-> 50, zscore |-> 0,
                       volume_ratio |-> 100, volatility_percentile |-> 50,
                       support_resistance_score |-> 50 ],
      weights |-> [ trend |-> 0, momentum |-> 0, mean_reversion |-> 0, volume |-> 0,
                    volatility |-> 0, structure |-> 0 ],
      result |-> [ trend_score |-> 0, momentum_score |-> 0, mean_reversion_score |-> 0,
                   volume_score |-> 0, volatility_score |-> 0, structure_score |-> 0,
                   total_score |-> 0 ] ]

NoScheduleCall == [ called |-> FALSE, is_market_open |-> FALSE, is_friday_close |-> FALSE ]

ProbInit == score_call = NoScoreCall /\ schedule_call = NoScheduleCall

calculate_probability_scores ==
    /\ \E indicators \in ScoreIndicators, weights \in ScoreWeights :
          score_call' = [ called |-> TRUE, indicators |-> indicators, weights |-> weights,
                          result |-> CalculateProbabilityScores(indicators, weights) ]
    /\ UNCHANGED << now, riskVars, feedVars, gateVars, memVars, analyzerVars, orchVars, aiVars,
                    schedule_call >>

ProbNext == calculate_probability_scores

\* ------------------------------------------------ MarketSchedule (CAPA 1)
\* The clock is read at every half hour of a week and a day.
MaxScheduleNow == 11520
schedule_step == 30

ScheduleTick ==
    /\ now + schedule_step <= MaxScheduleNow
    /\ now' = now + schedule_step
    /\ schedule_call' = NoScheduleCall
    /\ UNCHANGED << riskVars, feedVars, gateVars, memVars, analyzerVars, orchVars, aiVars,
                    score_call >>

\* is_market_open and is_friday_close, read at the same instant
read_schedule ==
    /\ schedule_call' = [ called |-> TRUE, is_market_open |-> IsMarketOpen(now),
                          is_friday_close |-> IsFridayClose(now) ]
    /\ UNCHANGED << now, riskVars, feedVars, gateVars, memVars, analyzerVars, orchVars, aiVars,
                    score_call >>

ScheduleNext == ScheduleTick \/ read_schedule

\* ------------------------------------------- LMStudioClient (CAPA 3)
\* The text of a reply is a sequence of tokens: a markdown fence, a brace,
\* a run of other text, or a "key": value pair, whose value is a string, a
\* whole number or null.

Fence == [ tok |-> "fence" ]
Open == [ tok |-> "{" ]
Close == [ tok |-> "}" ]
Words == [ tok |-> "text" ]
Pair(key, value) == [ tok |-> "pair", key |-> key, value |-> value ]
Str(v) == [ t |-> "str", s |-> v ]
Num(v) == [ t |-> "num", n |-> v ]
Null == [ t |-> "null" ]

\* str.upper() on the strings used
Upper(v) ==
    IF v \in { "up", "UP" } THEN "UP" ELSE IF v \in { "down", "DOWN" } THEN "DOWN"
    ELSE IF v \in { "neutral", "NEUTRAL" } THEN "NEUTRAL"
    ELSE IF v = "sideways" THEN "SIDEWAYS" ELSE v

\* int() of a JSON value; no result where int() raises
IntOf(value) ==
    IF value.t = "num" THEN Some(value.n)
    ELSE IF value.t = "str" /\ value.s = "70" THEN Some(70)
    ELSE None

Clamp(lo, hi, x) == IF x < lo THEN lo ELSE IF x > hi THEN hi ELSE x

\* re.sub of the markdown fences
StripFences(text) == SelectSeq(text, LAMBDA t : t # Fence)

\* re.search(r'\{[^}]*\}'): the leftmost opening brace that has a closing
\* brace after it, up to the first closing brace; no result without a match
FirstObject(text) ==
    LET starts == { i \in DOMAIN text :
                       text[i] = Open /\ \E j \in DOMAIN text : j > i /\ text[j] = Close }
    IN  IF starts = { } THEN None
        ELSE LET i == CHOOSE a \in starts : \A b \in starts : a <= b
                 j == CHOOSE a \in DOMAIN text :
                         /\ a > i /\ text[a] = Close
                         /\ \A b \in DOMAIN text : (b > i /\ text[b] = Close) => a <= b
             IN  Some(SubSeq(text, i + 1, j - 1))

\* the pattern "direccion":\s*"(UP|DOWN|NEUTRAL)" with re.IGNORECASE
DireccionMatches(text) ==
    { i \in DOMAIN text : /\ text[i].tok = "pair" /\ text[i].key = "direccion"
                          /\ text[i].value.t = "str"
                          /\ Upper(text[i].value.s) \in { "UP", "DOWN", "NEUTRAL" } }

\* the pattern "confianza":\s*(\d+)
ConfianzaMatches(text) ==
    { i \in DOMAIN text : /\ text[i].tok = "pair" /\ text[i].key = "confianza"
                          /\ text[i].value.t = "num" /\ text[i].value.n >= 0 }

MinOf(S) == CHOOSE a \in S : \A b \in S : a <= b

default_confianza == 50

\* _clean_json: the text handed to json.loads; no result where it raises
\* JSONDecodeError
CleanJson(response) ==
    LET text == StripFences(response)
    IN  IF FirstObject(text) # None THEN FirstObject(text)
        ELSE IF DireccionMatches(text) # { }
        THEN Some(<< Pair("direccion", Str(Upper(text[MinOf(DireccionMatches(text))].value.s))),
                     Pair("confianza",
                          IF ConfianzaMatches(text) # { }
                          THEN text[MinOf(ConfianzaMatches(text))].value
                          ELSE Num(default_confianza)) >>)
        ELSE None

\* json.loads of the inside of an object: the dict, a later pair replacing
\* an earlier one with its key; no result where the text is not valid JSON
JsonLoads(inside) ==
    IF \E i \in DOMAIN inside : inside[i].tok # "pair" THEN None
    ELSE Some([ key \in { inside[i].key : i \in DOMAIN inside } |->
                   inside[CHOOSE i \in DOMAIN inside :
                             /\ inside[i].key = key
                             /\ \A j \in DOMAIN inside : inside[j].key = key => j <= i].value ])

DecisionMap(direccion) ==
    IF direccion = "UP" THEN "CALL" ELSE IF direccion = "DOWN" THEN "PUT" ELSE "HOLD"

\* _fallback_response
FallbackResponse ==
    [ decision |-> "HOLD", razon |-> [ text |-> "Sistema en modo seguro" ],
      raw_response |-> << [ tok |-> "FALLBACK" ] >> ]

\* _parse_response; razon "Dir: d, Conf: c%" is carried as the record of d
\* and c, the fallback's razon and raw_response as a record and a text of
\* their own
ParseResponse(response) ==
    LET cleaned == CleanJson(response)
    IN  IF cleaned = None THEN FallbackResponse
        ELSE IF JsonLoads(cleaned[1]) = None THEN FallbackResponse
        ELSE LET data == JsonLoads(cleaned[1])[1]
                 given == Get(data, "direccion", Str("NEUTRAL"))
                 confianza == IntOf(Get(data, "confianza", Num(default_confianza)))
             IN  IF given.t # "str" \/ confianza = None THEN FallbackResponse
                 ELSE LET direccion == IF Upper(given.s) \in { "UP", "DOWN", "NEUTRAL" }
                                       THEN Upper(given.s) ELSE "NEUTRAL"
                      IN  [ decision |-> DecisionMap(direccion),
                            razon |-> [ direccion |-> direccion,
                                        confianza |-> Clamp(0, 100, confianza[1]) ],
                            raw_response |-> response ]

\* the values a reply gives to its two keys, and replies lacking a key
ReplyDirecciones == { Str("UP"), Str("down"), Str("NEUTRAL"), Str("sideways"), Num(5) }
ReplyConfianzas == { Num(85), Num(150), Num(0 - 5), Str("70"), Str("high"), Null }
ReplyPairs ==
    { << Pair("direccion", d), Pair("confianza", c) >> :
         d \in ReplyDirecciones, c \in ReplyConfianzas }
    \cup { << Pair("direccion", d) >> : d \in ReplyDirecciones }
    \cup { << Pair("confianza", c) >> : c \in ReplyConfianzas }

\* the texts of a reply: the empty one, plain words, an object, an object
\* inside fences and words, the pairs without braces, an object inside an
\* object, words inside braces
ReplyTexts ==
    { << >>, << Words >>, << Open, Words, Close >>, << Open, Close >> }
    \cup { << Open >> \o p \o << Close >> : p \in ReplyPairs }
    \cup { << Words, Fence, Open >> \o p \o << Close, Fence >> : p \in ReplyPairs }
    \cup { << Words >> \o p : p \in ReplyPairs }
    \cup { << Open, Pair("signal", Str("x")), Open >> \o p \o << Close, Close >> :
              p \in ReplyPairs }

\* what the request ends in: an exception, a status other than 200, or a
\* reply with its content
HttpOutcomes ==
    { [ kind |-> "exception" ], [ kind |-> "status", status |-> 500 ] }
    \cup { [ kind |-> "ok", content |-> text ] : text \in ReplyTexts }

\* _make_request: the content, or no result
MakeRequest(outcome) == IF outcome.kind = "ok" THEN Some(outcome.content) ELSE None

\* analizar_mercado: "not response" holds for no result and for empty content
AnalizarMercado(outcome) ==
    IF MakeRequest(outcome) = None \/ MakeRequest(outcome) = Some(<< >>)
    THEN FallbackResponse
    ELSE ParseResponse(MakeRequest(outcome)[1])

\* test_connection over the answers of the addresses it tries in turn
RECURSIVE TestConnection(_)
TestConnection(outcomes) ==
    IF outcomes = << >> THEN FALSE
    ELSE IF AnalizarMercado(Head(outcomes)).decision \in { "CALL", "PUT", "HOLD" } THEN TRUE
    ELSE TestConnection(Tail(outcomes))

NoAiCall == [ called |-> FALSE, outcome |-> [ kind |-> "exception" ], result |-> FallbackResponse ]

AiInit == ai_session = FALSE /\ ai_call = NoAiCall

analizar_mercado ==
    /\ \E outcome \in HttpOutcomes :
          ai_call' = [ called |-> TRUE, outcome |-> outcome, result |-> AnalizarMercado(outcome) ]
    /\ ai_session' = TRUE
    /\ UNCHANGED << now, riskVars, feedVars, gateVars, memVars, analyzerVars, orchVars, probVars >>

\* close
close_client ==
    /\ ai_session' = FALSE
    /\ ai_call' = NoAiCall
    /\ UNCHANGED << now, riskVars, feedVars, gateVars, memVars, analyzerVars, orchVars, probVars >>

AiNext == analizar_mercado \/ close_client

\* ------------------------------------- TradingDSSOrchestrator (the cycle)
\* One instrument. The stream handed to _analyze_symbol is read through
\* get_current_data and get_weekend_context only; what they return is the
\* input of the cycle. An alert carries the fields of AlertData that come
\* from the AI reply.

MaxAlerts == 2
MaxJournal == 1
orchestrator_min_candles == 50
live_confidence_threshold == 70
weekend_confidence_threshold == 65

\* the frames get_current_data hands to a cycle
CycleHistories ==
    { [ close |-> HistoryCloses(shape, n), volume |-> HistoryVolumes(last, n) ] :
         shape \in { Quiet, Breakout }, n \in HistoryLengths, last \in LastVolumes }

\* micro_features of a weekend packet: a calm weekend and a volatile one
CycleMicroFeatures ==
    { [ micro_volatility |-> 0, gap_friday |-> 0 ],
      [ micro_volatility |-> 2000, gap_friday |-> 0 ] }

\* what a client that has analyze_market_context_with_memory hands back
CycleReplies ==
    { None } \cup { Some([ action |-> "CALL", confidence |-> c ]) : c \in { 50, 65, 70 } }
             \cup { Some([ action |-> "HOLD", confidence |-> 70 ]) }

\* df['close'].iloc[-1] if not df.empty else 0.0 in prepare_ai_data raises
PrepareAiDataRaises(df) == "close" \notin DOMAIN df

CycleCloses(df) == IF "close" \in DOMAIN df THEN df.close ELSE << >>

ConfidenceThreshold(mode) ==
    IF mode = "weekend_otc" THEN weekend_confidence_threshold ELSE live_confidence_threshold

\* _analyze_symbol, given what analyze_market_data gives for df: the stage at
\* which the cycle ends, the component operations it has called, and what it
\* leaves behind
CycleFrom(analysis, df, mode, micro_features, last, connected, has_method, reply) ==
    LET base == [ stage |-> "skipped", calls |-> { "get_current_data" },
                  last_analysis |-> last, indicators |-> None, woke |-> None,
                  response |-> None, alert |-> None ]
    IN  IF FrameLen(df) = 0 \/ FrameLen(df) < orchestrator_min_candles THEN base
        ELSE LET analysed == [ base EXCEPT !.calls = @ \cup { "get_weekend_context",
                                                             "analyze_market_data" },
                                           !.last_analysis = analysis.last_analysis,
                                           !.indicators = analysis.result ]
             IN  IF analysis.result = None THEN [ analysed EXCEPT !.stage = "no_data" ]
                 ELSE IF mode # "weekend_otc" /\ PrepareAiDataRaises(df)
                 THEN [ analysed EXCEPT !.stage = "error" ]
                 ELSE LET indicators == analysis.result[1]
                          wake == IF mode = "weekend_otc"
                                  THEN ShouldWakeAiWeekend(indicators, CycleCloses(df),
                                                           micro_features)
                                  ELSE ShouldWakeAi(indicators, df)
                          gated == [ analysed EXCEPT
                                        !.calls = @ \cup { IF mode = "weekend_otc"
                                                           THEN "should_wake_ai_weekend"
                                                           ELSE "should_wake_ai" },
                                        !.woke = Some(wake) ]
                      IN  IF ~wake THEN [ gated EXCEPT !.stage = "asleep" ]
                          ELSE IF ~connected THEN [ gated EXCEPT !.stage = "no_response" ]
                          ELSE IF ~has_method THEN [ gated EXCEPT !.stage = "error" ]
                          ELSE LET asked == [ gated EXCEPT
                                   !.calls = @ \cup { "analyze_market_context_with_memory" },
                                   !.response = reply ]
                               IN  IF reply = None
                                   THEN [ asked EXCEPT !.stage = "no_response" ]
                                   ELSE IF reply[1].confidence >= ConfidenceThreshold(mode)
                                   THEN [ asked EXCEPT !.stage = "alert",
                                                       !.calls = @ \cup { "show_alert" },
                                                       !.alert = Some([ prediction |-> reply[1].action,
                                                                        confidence |-> reply[1].confidence ]) ]
                                   ELSE [ asked EXCEPT !.stage = "below_threshold" ]

NoCycle ==
    [ called |-> FALSE, df |-> [ close |-> << >>, volume |-> << >> ], market_mode |-> "unknown",
      micro_features |-> << >>, stage |-> "skipped", calls |-> { }, indicators |-> None,
      woke |-> None, response |-> None, alert |-> None ]

OrchInit(has_method) ==
    /\ ai_connected = FALSE
    /\ client_method = has_method
    /\ dss_running = FALSE
    /\ active_alerts = << >>
    /\ alerts_stuck = FALSE
    /\ session_records = << >>
    /\ cycle = NoCycle
    /\ analysis_thread = "unborn"

\* the answers the three addresses of test_connection can give
ConnectionOutcomes ==
    { [ kind |-> "exception" ], [ kind |-> "status", status |-> 500 ],
      [ kind |-> "ok", content |-> << Open, Pair("direccion", Str("UP")), Close >> ] }

\* start_system: test_connection, then the instrument's stream is
\* constructed and started, then the analysis thread. An error raised by
\* start_stream leaves start_system before the analysis thread is created.
start_system ==
    /\ ~dss_running
    /\ analysis_thread = "unborn"
    /\ data_thread = 0
    /\ \E outcomes \in [ 1..3 -> ConnectionOutcomes ] :
          ai_connected' = TestConnection(outcomes)
    /\ ai_session' = TRUE
    /\ ai_call' = NoAiCall
    /\ dss_running' = TRUE
    /\ StartStream
    /\ analysis_thread' = IF feedLog'.load_raised THEN "unborn" ELSE "loop"
    /\ cycle' = NoCycle
    /\ UNCHANGED << now, riskVars, gateVars, memVars, analyzerVars, probVars,
                    client_method, active_alerts, alerts_stuck, session_records >>

\* stop_system up to the join inside the stream's stop_stream: both running
\* flags are cleared. StopSave and StopClose are the rest of stop_stream; it
\* ends by reading self.symbol, and on an instance without the attribute the
\* error ends stop_system there.
stop_system ==
    /\ dss_running
    /\ dss_running' = FALSE
    /\ StopStream
    /\ cycle' = NoCycle
    /\ UNCHANGED << now, riskVars, gateVars, memVars, analyzerVars, aiVars, probVars,
                    ai_connected, client_method, active_alerts, alerts_stuck,
                    session_records, analysis_thread >>

\* while self.running in _analysis_loop: the condition read false
analysis_exit ==
    /\ analysis_thread = "loop"
    /\ ~dss_running
    /\ analysis_thread' = "done"
    /\ cycle' = NoCycle
    /\ UNCHANGED << now, riskVars, feedVars, gateVars, memVars, analyzerVars, aiVars, probVars,
                    ai_connected, client_method, dss_running, active_alerts, alerts_stuck,
                    session_records >>

\* an AlertPopup of the manager's list: its data, and whether its window exists
AlertPopup(alert_data, window) == [ alert_data |-> alert_data, window |-> window ]

\* the popups _close_alerts_for_symbol closes: those of the symbol whose
\* window exists
OpenFor(alerts, symbol) ==
    { k \in DOMAIN alerts : alerts[k].alert_data.symbol = symbol /\ alerts[k].window }

\* AlertManager.show_alert. Under the manager's lock the earlier popups of
\* the symbol with a window are closed: _close_window calls
\* _on_alert_decision, which takes the same lock, a threading.Lock, and the
\* calling thread waits for itself. Otherwise the popup is appended; its
\* window is created in the call on the main thread, scheduled elsewhere
ShowAlert(alert_data, in_main_thread) ==
    IF OpenFor(active_alerts, alert_data.symbol) # { }
    THEN /\ alerts_stuck' = TRUE
         /\ UNCHANGED active_alerts
    ELSE /\ active_alerts' = Append(active_alerts, AlertPopup(alert_data, in_main_thread))
         /\ UNCHANGED alerts_stuck

\* the instrument the orchestrator of the model analyses
Symbol == "EURUSD"

\* the AlertData _show_trading_alert builds from the response
TradingAlert(symbol, alert) ==
    [ symbol |-> symbol, prediction |-> alert.prediction, confidence |-> alert.confidence ]

\* one pass of _analysis_loop over the instrument, ending with show_alert
\* called from the analysis thread
AnalyzeSymbol(frames, modes) ==
    /\ analysis_thread = "loop"
    /\ dss_running /\ ~alerts_stuck
    /\ Len(active_alerts) < MaxAlerts
    /\ \E df \in frames :
       \E analysis \in { AnalyzeMarketData(df, last_analysis) },
          mode \in modes,
          micro_features \in CycleMicroFeatures, reply \in CycleReplies :
          /\ mode = "live" => micro_features = [ micro_volatility |-> 0, gap_friday |-> 0 ]
          /\ \E run \in { CycleFrom(analysis, df, mode, micro_features, last_analysis,
                                     ai_connected, client_method, reply) } :
                 /\ run.stage \notin { "no_response", "below_threshold", "alert" }
                      => reply = None
                 /\ cycle' = [ called |-> TRUE, df |-> df, market_mode |-> mode,
                               micro_features |-> IF mode = "weekend_otc" THEN micro_features
                                                  ELSE << >>,
                               stage |-> run.stage, calls |-> run.calls,
                               indicators |-> run.indicators, woke |-> run.woke,
                               response |-> run.response, alert |-> run.alert ]
                 /\ last_analysis' = run.last_analysis
                 /\ IF run.alert = None
                    THEN UNCHANGED << active_alerts, alerts_stuck >>
                    ELSE ShowAlert(TradingAlert(Symbol, run.alert[1]), FALSE)
    /\ UNCHANGED << now, riskVars, feedVars, gateVars, memVars, aiVars, probVars,
                    analysis_call, ai_connected, client_method, dss_running, session_records,
                    analysis_thread >>

\* the pass over an instrument whose stream may hand over any history
analyze_symbol == AnalyzeSymbol(CycleHistories, { "live", "weekend_otc" })

\* the frame get_current_data builds from the stream's buffer (the ticks of
\* the model carry no volume: each row has the default one)
StreamFrame(buf) ==
    [ close |-> Closes(buf), volume |-> [ k \in 1..Len(buf) |-> base_volume ] ]

\* the pass over the instrument of the stream start_system started: the
\* history and the mode are read from it, under its lock
analyze_stream ==
    /\ lock = "none"
    /\ AnalyzeSymbol({ StreamFrame(historical_buffer) }, { market_mode })

UserDecisions == { "EXECUTE", "REJECT", "TIMEOUT", "CLOSE" }

Lower(direction) ==
    IF direction = "CALL" THEN "call" ELSE IF direction = "PUT" THEN "put"
    ELSE IF direction = "HOLD" THEN "hold" ELSE direction

\* the row _on_user_decision hands to log_signal
JournalRow(decision, alert_data) ==
    [ direction |-> Lower(alert_data.prediction), probability |-> alert_data.confidence,
      ai_validation |-> TRUE, risk_approved |-> TRUE,
      risk_score |-> 100 - alert_data.confidence,
      user_action |-> IF decision = "EXECUTE" THEN "accepted" ELSE "rejected" ]

\* the list _on_alert_decision keeps: the popups whose data differ from x
RECURSIVE Without(_, _)
Without(seq, x) ==
    IF seq = << >> THEN << >>
    ELSE IF Head(seq).alert_data = x THEN Without(Tail(seq), x)
    ELSE << Head(seq) >> \o Without(Tail(seq), x)

\* the callback _schedule_in_main_thread registered runs: the window of a
\* popup shown from another thread than the main one is created
create_alert_window ==
    /\ \E k \in DOMAIN active_alerts :
          /\ ~active_alerts[k].window
          /\ active_alerts' = [ active_alerts EXCEPT ![k].window = TRUE ]
    /\ cycle' = NoCycle
    /\ UNCHANGED << now, riskVars, feedVars, gateVars, memVars, analyzerVars, aiVars,
                    probVars, ai_connected, client_method, dss_running, alerts_stuck,
                    session_records, analysis_thread >>

\* a window of an active alert is answered or times out: _close_window,
\* _on_alert_decision, then _on_user_decision and log_signal
on_user_decision ==
    /\ ~alerts_stuck
    /\ Len(session_records) < MaxJournal
    /\ \E k \in DOMAIN active_alerts, decision \in UserDecisions :
          /\ active_alerts[k].window
          /\ active_alerts' = Without(active_alerts, active_alerts[k].alert_data)
          /\ session_records' = Append(session_records,
                                       JournalRow(decision, active_alerts[k].alert_data))
    /\ cycle' = NoCycle
    /\ UNCHANGED << now, riskVars, feedVars, gateVars, memVars, analyzerVars, aiVars,
                    probVars, ai_connected, client_method, dss_running, alerts_stuck,
                    analysis_thread >>

\* the alerts a caller of the manager can ask for
AlertSymbols == { "EURUSD", "GBPUSD" }

AlertInputs ==
    { TradingAlert(symbol, [ prediction |-> p, confidence |-> 70 ]) :
        symbol \in AlertSymbols, p \in { "CALL", "PUT" } }

\* AlertManager.show_alert called by any thread
show_alert ==
    /\ ~alerts_stuck
    /\ Len(active_alerts) < MaxAlerts
    /\ \E alert_data \in AlertInputs, in_main_thread \in BOOLEAN :
          ShowAlert(alert_data, in_main_thread)
    /\ cycle' = NoCycle
    /\ UNCHANGED << now, riskVars, feedVars, gateVars, memVars, analyzerVars, aiVars,
                    probVars, ai_connected, client_method, dss_running, session_records,
                    analysis_thread >>

\* AlertManager.close_all_alerts: under the lock every popup with a window
\* is closed, through the same _close_window, then the list is cleared
close_all_alerts ==
    /\ ~alerts_stuck
    /\ IF \E k \in DOMAIN active_alerts : active_alerts[k].window
       THEN /\ alerts_stuck' = TRUE
            /\ UNCHANGED active_alerts
       ELSE /\ active_alerts' = << >>
            /\ UNCHANGED alerts_stuck
    /\ cycle' = NoCycle
    /\ UNCHANGED << now, riskVars, feedVars, gateVars, memVars, analyzerVars, aiVars,
                    probVars, ai_connected, client_method, dss_running, session_records,
                    analysis_thread >>

\* the alert manager of a constructed orchestrator, called from outside
AlertNext == show_alert \/ create_alert_window \/ on_user_decision \/ close_all_alerts

OrchNext == start_system \/ analyze_symbol

OrchNextClient ==
    start_system \/ analyze_symbol \/ create_alert_window \/ on_user_decision

\* the system started and stopped, with its two loops and the OCR worker
StopNext ==
    \/ start_system
    \/ stop_system
    \/ StopSave
    \/ StopClose
    \/ analyze_stream
    \/ analysis_exit
    \/ FeedTick
    \/ OcrComplete
    \/ OcrExcept
    \/ \E i \in ThreadIds :
          \/ ThreadExit(i)
          \/ LiveCycleSwitch(i)
          \/ LiveCycleNoData(i)
          \/ OtcCycleSwitch(i)
          \/ OtcCaptureFailed(i)
          \/ OtcSubmit(i)
          \/ OtcExcept(i)

\* every thread is scheduled again: a sleep ends, an except branch runs on
StopFairness ==
    /\ WF_vars(analysis_exit)
    /\ \A i \in ThreadIds : WF_vars(ThreadExit(i)) /\ WF_vars(OtcExcept(i))

\* ------------------------------------------------------ specifications
AnalysisInit == GateInit /\ MemInit /\ AnalyzerInit /\ AiInit /\ ProbInit

\* every object as its constructor leaves it, on a Monday shortly before midnight
InitConstructed ==
    now = StartNow /\ RiskInit(StartNow) /\ FeedInit(FALSE) /\ AnalysisInit /\ OrchInit(FALSE)

\* the same, the orchestrator's ai_client having the method the cycle calls
InitOrchestratorClient ==
    now = StartNow /\ RiskInit(StartNow) /\ FeedInit(FALSE) /\ AnalysisInit /\ OrchInit(TRUE)

\* the same on a Friday at 20:00, two hours before the market closes
InitFeed ==
    now = At(4, 20) /\ RiskInit(At(4, 20)) /\ FeedInit(FALSE) /\ AnalysisInit /\ OrchInit(FALSE)

\* the same, the stream's caller having assigned its symbol attribute
InitFeedAssigned ==
    now = At(4, 20) /\ RiskInit(At(4, 20)) /\ FeedInit(TRUE) /\ AnalysisInit /\ OrchInit(FALSE)

SpecStop == InitFeed /\ [][StopNext]_vars /\ StopFairness

SpecRisk == InitConstructed /\ [][RiskNext]_vars

SpecFeed == InitFeed /\ [][FeedNext]_vars

SpecFeedAssigned == InitFeedAssigned /\ [][FeedNextAssigned]_vars

SpecGate == InitConstructed /\ [][GateNext]_vars

SpecAnalyzer == InitConstructed /\ [][AnalyzerNext]_vars

SpecSchedule == InitConstructed /\ [][ScheduleNext]_vars

SpecProbability == InitConstructed /\ [][ProbNext]_vars

SpecAi == InitConstructed /\ [][AiNext]_vars

SpecOrchestrator == InitConstructed /\ [][OrchNext]_vars

SpecOrchestratorClient == InitOrchestratorClient /\ [][OrchNextClient]_vars

SpecAlerts == InitOrchestratorClient /\ [][AlertNext]_vars

SpecMemory == InitConstructed /\ [][MemNext]_vars

SpecAdjust == InitConstructed /\ [][AdjustNext]_vars

SpecAdjustedRisk == InitConstructed /\ [][AdjustedRiskNext]_vars

SpecRecord == InitConstructed /\ [][RecordNext]_vars

SpecCooldown == InitConstructed /\ [][CooldownNext]_vars

\* ------------------------------------------------------- claims: RiskManager

\* C1 (as stated): after max_consecutive_losses LOSS results in a row, the next
\* check_risk_approval call returns approved=false and sets blocked_until to
\* 30 minutes after that call; and every call made before blocked_until
\* returns approved=false.
C1_AsStated ==
    /\ (lastCheck.called /\ lastCheck.fresh
            /\ lastCheck.pre.consecutive_losses >= max_consecutive_losses)
         => /\ ~lastCheck.result.approved
            /\ daily_stats.blocked_until = Some(lastCheck.at + 30)
    /\ (lastCheck.called /\ lastCheck.pre.blocked_until # None
            /\ lastCheck.at < lastCheck.pre.blocked_until[1])
         => ~lastCheck.result.approved

\* C1 (amended): after max_consecutive_losses LOSS results in a row, the next
\* check_risk_approval call returns approved=false, and it sets blocked_until
\* to 30 minutes after that call when no cooldown is active at the call and
\* total_loss is below max_daily_loss; every call made before blocked_until
\* returns approved=false, whatever decision, confidence and volatility.
C1_CooldownAfterLosses ==
    /\ (lastCheck.called /\ lastCheck.fresh
            /\ lastCheck.pre.consecutive_losses >= max_consecutive_losses)
         => /\ ~lastCheck.result.approved
            /\ ( ( \/ lastCheck.pre.blocked_until = None
                   \/ lastCheck.at >= lastCheck.pre.blocked_until[1] )
                 /\ lastCheck.pre.total_loss < 100 )
               => daily_stats.blocked_until = Some(lastCheck.at + 30)
    /\ (lastCheck.called /\ lastCheck.pre.blocked_until # None
            /\ lastCheck.at < lastCheck.pre.blocked_until[1])
         => ~lastCheck.result.approved

\* C1 witness: the first check after three straight losses has just set a cooldown
C1_Witness ==
    /\ lastCheck.called /\ lastCheck.fresh
    /\ lastCheck.pre.consecutive_losses = 3
    /\ lastCheck.pre.blocked_until = None
    /\ ~lastCheck.result.approved
    /\ daily_stats.blocked_until = Some(lastCheck.at + 30)

C2_Fails(i) ==
    CASE i = 1 -> /\ lastCheck.pre.blocked_until # None
                  /\ lastCheck.at < lastCheck.pre.blocked_until[1]
      [] i = 2 -> lastCheck.pre.total_loss >= 100
      [] i = 3 -> lastCheck.pre.consecutive_losses >= 3
      [] i = 4 -> lastCheck.market_volatility > 2
      [] i = 5 -> lastCheck.confidence < 60
      [] i = 6 -> lastCheck.ai_decision # "CALL" /\ lastCheck.ai_decision # "PUT"

C2_FirstFailing ==
    IF \E i \in 1..6 : C2_Fails(i)
    THEN CHOOSE i \in 1..6 : C2_Fails(i) /\ \A j \in 1..(i - 1) : ~C2_Fails(j)
    ELSE 0

C2_Reason ==
    << "Sistema bloqueado por perdidas consecutivas", "Limite diario alcanzado",
       "perdidas consecutivas - Cooldown aplicado", "Volatilidad extrema",
       "Confianza insuficiente", "Decision invalida o HOLD" >>

C2_Level == << "CRITICAL", "CRITICAL", "HIGH", "HIGH", "MEDIUM", "LOW" >>

\* C2: check_risk_approval evaluates cooldown, daily loss, consecutive losses,
\* volatility, confidence, decision in that order; reason and risk_level are
\* those of the first check that fails, and approved=true is returned only
\* when none of the six fails.
C2_FirstFailureWins ==
    lastCheck.called =>
        /\ lastCheck.result.approved <=> (C2_FirstFailing = 0)
        /\ C2_FirstFailing # 0 =>
              /\ lastCheck.result.reason = C2_Reason[C2_FirstFailing]
              /\ lastCheck.result.risk_level = C2_Level[C2_FirstFailing]

\* C2 witness: volatility and confidence both fail and the earlier check is reported
C2_Witness ==
    /\ lastCheck.called
    /\ lastCheck.market_volatility > 2 /\ lastCheck.confidence < 60
    /\ lastCheck.ai_decision = "HOLD"
    /\ lastCheck.result.reason = "Volatilidad extrema"
    /\ lastCheck.result.risk_level = "HIGH"

\* C3 (as the spec states it): every weekend_otc cycle that finds the market
\* closed adds exactly one tick to the weekend buffer. A cycle whose capture
\* failed, or whose OCR job was refused, has added one MOCK_GENERATED tick when
\* it ends; a completed OCR job has added one tick, tagged OCR_LIVE when a price
\* was read and MOCK_GENERATED otherwise.
C3_AsStated ==
    /\ ( feedLog.kind = "weekend_cycle" /\ ~feedLog.open
         /\ feedLog.capture \in { "failed", "refused" } )
       => /\ Len(weekend_buffer) = Len(feedLog.weekend_before) + 1
          /\ SubSeq(weekend_buffer, 1, Len(feedLog.weekend_before)) = feedLog.weekend_before
          /\ Last(weekend_buffer).data_source_tag = "MOCK_GENERATED"
    /\ feedLog.kind = "ocr_done"
       => /\ Len(weekend_buffer) = Len(feedLog.weekend_before) + 1
          /\ Last(weekend_buffer).data_source_tag =
                (IF feedLog.outcome > 0 THEN "OCR_LIVE" ELSE "MOCK_GENERATED")

\* C4: start_stream sets the mode from the clock; a cycle in live mode moves
\* to weekend_otc exactly when its clock reading is "closed", a cycle in
\* weekend_otc mode moves to live exactly when its reading is "open"; nothing
\* else changes the mode, and the mode never goes back to "unknown".
C4_ModeFollowsClock ==
    [][ /\ feedLog'.kind = "start"
           => market_mode' = (IF IsMarketOpen(now) THEN "live" ELSE "weekend_otc")
        /\ feedLog'.kind = "live_cycle"
           => /\ feedLog'.mode_before = "live"
              /\ market_mode' = (IF feedLog'.open THEN market_mode ELSE "weekend_otc")
        /\ feedLog'.kind = "weekend_cycle"
           => /\ feedLog'.mode_before = "weekend_otc"
              /\ market_mode' = (IF feedLog'.open THEN "live" ELSE market_mode)
        /\ market_mode' # market_mode
           => \/ feedLog'.kind = "start"
              \/ /\ feedLog'.kind = "live_cycle"
                 /\ market_mode = "live" /\ ~IsMarketOpen(now)
                 /\ market_mode' = "weekend_otc"
              \/ /\ feedLog'.kind = "weekend_cycle"
                 /\ market_mode = "weekend_otc" /\ IsMarketOpen(now)
                 /\ market_mode' = "live"
        /\ market_mode # "unknown" => market_mode' # "unknown"
      ]_vars

C4_Witness ==
    /\ feedLog.kind = "live_cycle"
    /\ feedLog.mode_before = "live"
    /\ ~feedLog.open
    /\ market_mode = "weekend_otc"

C8_AsStated ==
    reader.pc = "in" => market_mode = reader.mode_at_entry

\* ------------------------------------------- claims: TechnicalAnalyzer

\* C9: a should_wake_ai_weekend call whose micro_volatility is above 15 pips
\* returns False, whatever the RSI, the close against the bands and the gap.
C9_VolatilityVeto ==
    ( gate_call.called
      /\ "micro_volatility" \in DOMAIN gate_call.micro_features
      /\ gate_call.micro_features.micro_volatility > 15 * 100 )
    => gate_call.result = FALSE

C9_Witness ==
    /\ gate_call.called
    /\ gate_call.rsi = 95
    /\ gate_call.df # << >>
    /\ "micro_volatility" \in DOMAIN gate_call.micro_features
    /\ gate_call.micro_features.micro_volatility = 20 * 100
    /\ gate_call.result = FALSE

\* ---------------------------------------------- claims: ErrorMemoryRAG

C10_Losses ==
    { k \in 1..Len(csv_file.rows) :
         csv_file.rows[k].outcome = "LOSS" /\ csv_file.rows[k].age_hours <= 24 }

C10_Failures(column, value) ==
    Cardinality({ k \in C10_Losses : csv_file.rows[k][column] = value })

C10_Sum ==
    LET ctx == mem_call.context
        n == Cardinality(C10_Losses)
    IN (IF n >= 5 THEN 15 ELSE IF n >= 3 THEN 10 ELSE 0)
       + (IF "signal" \in DOMAIN ctx /\ C10_Failures("signal", ctx.signal) >= 2
          THEN 20 ELSE 0)
       + (IF "market_state" \in DOMAIN ctx /\ ctx.market_state = "OTC_ESTIMATED"
             /\ C10_Failures("market_state", "OTC_ESTIMATED") >= 2
          THEN 15 ELSE 0)
       + (IF "technical_trigger" \in DOMAIN ctx
             /\ C10_Failures("technical_trigger", ctx.technical_trigger) >= 2
          THEN 12 ELSE 0)
       + (IF Cardinality({ k \in C10_Losses : csv_file.rows[k].ai_confidence >= 85 }) >= 2
          THEN 8 ELSE 0)

\* C10: the penalty calculate_risk_adjustment returns is the smaller of 40 and
\* the sum of the five weights, counted over the LOSS rows of the last 24
\* hours; it is 0 when the log is missing or holds no such row.
C10_PenaltyFormula ==
    mem_call.called
    => /\ mem_call.result.confidence_penalty = (IF C10_Sum < 40 THEN C10_Sum ELSE 40)
       /\ (~csv_file.exists \/ C10_Losses = {}) => mem_call.result.confidence_penalty = 0

C10_Witness ==
    /\ mem_call.called
    /\ C10_Sum = 70
    /\ mem_call.result.confidence_penalty = 40

\* C11: should_be_neutral is true exactly when the returned penalty is at least
\* 30; with at least 5 recent losses, at least 2 of them carrying the proposed
\* signal, the penalty is at least 35 and should_be_neutral is true.
C11_NeutralFromPenalty ==
    mem_call.called
    => /\ mem_call.result.should_be_neutral <=> mem_call.result.confidence_penalty >= 30
       /\ ( /\ Cardinality(C10_Losses) >= 5
            /\ "signal" \in DOMAIN mem_call.context
            /\ C10_Failures("signal", mem_call.context.signal) >= 2 )
          => /\ mem_call.result.confidence_penalty >= 35
             /\ mem_call.result.should_be_neutral

C11_Witness ==
    /\ mem_call.called
    /\ Cardinality(C10_Losses) = 5
    /\ "signal" \in DOMAIN mem_call.context
    /\ C10_Failures("signal", mem_call.context.signal) >= 2
    /\ mem_call.result.confidence_penalty = 35
    /\ mem_call.result.should_be_neutral

C12_Original ==
    IF "confidence_score" \in DOMAIN adj_call.response
    THEN adj_call.response.confidence_score ELSE 50

C12_Lowered ==
    IF C12_Original - adj_call.risk_adjustment.confidence_penalty > 45
    THEN C12_Original - adj_call.risk_adjustment.confidence_penalty ELSE 45

\* C12: _apply_memory_adjustments returns confidence_score = max(confidence -
\* penalty, 45); with should_be_neutral it returns signal NEUTRAL and that
\* confidence capped at 55, hence within 45..55; without it the signal is the
\* reply's.
C12_MemoryAdjustment ==
    adj_call.called
    => IF adj_call.risk_adjustment.should_be_neutral
       THEN /\ adj_call.result.signal = "NEUTRAL"
            /\ adj_call.result.confidence_score = (IF C12_Lowered < 55 THEN C12_Lowered ELSE 55)
            /\ adj_call.result.confidence_score \in 45..55
       ELSE /\ adj_call.result.confidence_score = C12_Lowered
            /\ ("signal" \in DOMAIN adj_call.result) = ("signal" \in DOMAIN adj_call.response)
            /\ "signal" \in DOMAIN adj_call.response
               => adj_call.result.signal = adj_call.response.signal

C12_Witness ==
    /\ adj_call.called
    /\ adj_call.risk_adjustment.should_be_neutral
    /\ DOMAIN adj_call.response = { "signal", "confidence_score", "risk_adjustment_reason" }
    /\ adj_call.response.signal = "CALL"
    /\ adj_call.response.confidence_score = 100
    /\ adj_call.risk_adjustment.confidence_penalty = 30
    /\ adj_call.result.signal = "NEUTRAL"
    /\ adj_call.result.confidence_score = 55

\* ------------------------------------- claims: RiskManager, continued

\* the results of a last_trades list, oldest first
C13_ResultsOf(trades) == [ k \in 1..Len(trades) |-> trades[k].result ]

\* the results held before the call followed by the one recorded
C13_AllResults == Append(C13_ResultsOf(lastRisk.pre.last_trades), lastRisk.result)

C14_RejectedOnLosses ==
    /\ lastRisk.op = "check_risk_approval"
    /\ lastCheck.called
    /\ lastCheck.result.risk_level = "HIGH"
    /\ lastCheck.result.reason = "perdidas consecutivas - Cooldown aplicado"

C15_RolledOver(stats, t) ==
    IF stats.date = DateOf(t) THEN stats ELSE NewDailyStats(t)

\* C15 as stated: when the calendar date has changed since the state was
\* loaded, check_risk_approval and record_trade_result work on a zeroed state
\* dated the new day, so that a loss limit or cooldown of the previous day
\* never blocks an operation on the new day.
C15_AsStated ==
    /\ lastCheck.called
       => lastCheck.result =
             CheckOutcome(C15_RolledOver(lastCheck.pre, lastCheck.at), lastCheck.at,
                          lastCheck.ai_decision, lastCheck.confidence,
                          lastCheck.market_volatility)
    /\ lastRisk.op = "record_trade_result"
       => daily_stats =
             RecordedStats(C15_RolledOver(lastRisk.pre, lastRisk.at), lastRisk.at,
                           lastRisk.result, lastRisk.amount)

\* the state file holds a state saved on the calendar date of time t
C16_SavedToday(file, t) ==
    /\ file.kind = "json"
    /\ file.data.date = t \div (24 * 60)

C17_CooldownElapsed ==
    /\ lastCheck.called
    /\ lastCheck.pre.blocked_until # << >>
    /\ lastCheck.at >= lastCheck.pre.blocked_until[1]

\* the result the checks after the cooldown check give: daily loss,
\* consecutive losses, volatility, confidence, decision
C17_RemainingChecks ==
    IF lastCheck.pre.total_loss >= 100
    THEN [ approved |-> FALSE, reason |-> "Limite diario alcanzado", risk_level |-> "CRITICAL" ]
    ELSE IF lastCheck.pre.consecutive_losses >= 3
    THEN [ approved |-> FALSE, reason |-> "perdidas consecutivas - Cooldown aplicado", risk_level |-> "HIGH" ]
    ELSE IF lastCheck.market_volatility > 2
    THEN [ approved |-> FALSE, reason |-> "Volatilidad extrema", risk_level |-> "HIGH" ]
    ELSE IF lastCheck.confidence < 60
    THEN [ approved |-> FALSE, reason |-> "Confianza insuficiente", risk_level |-> "MEDIUM" ]
    ELSE IF lastCheck.ai_decision \notin { "CALL", "PUT" }
    THEN [ approved |-> FALSE, reason |-> "Decision invalida o HOLD", risk_level |-> "LOW" ]
    ELSE [ approved |-> TRUE, reason |-> "Todos los controles de riesgo pasados", risk_level |-> "LOW" ]

\* C17: once the time stored in blocked_until has passed, check_risk_approval
\* does not reject because of that cooldown; its result is the one the
\* remaining checks give.
C17_CooldownExpires ==
    C17_CooldownElapsed
    => /\ lastCheck.result.reason # "Sistema bloqueado por perdidas consecutivas"
       /\ lastCheck.result = C17_RemainingChecks

C17_Witness ==
    /\ C17_CooldownElapsed
    /\ lastCheck.at = lastCheck.pre.blocked_until[1]
    /\ lastCheck.pre.consecutive_losses = 0
    /\ lastCheck.pre.total_loss = 30
    /\ lastCheck.result.approved

\* ------------------------------- claims: MarketDataStream, continued

\* the live cycle that has just ended found the market closed and changed
\* the mode to weekend_otc
C18_Switched ==
    /\ feedLog.kind = "live_cycle"
    /\ feedLog.mode_before = "live"
    /\ ~feedLog.open
    /\ market_mode = "weekend_otc"

\* the gap the analyzer computes from the weekend context just read
C18_Gap == GapFriday(lastRead.weekend_prices, lastRead.friday_close, lastRead.current_price)

C19_SwitchedAtFridayClose ==
    /\ feedLog.kind = "live_cycle"
    /\ feedLog.mode_before = "live"
    /\ ~feedLog.open
    /\ market_mode = "weekend_otc"
    /\ Weekday(now) = 4 /\ Hour(now) >= 21

C21_Evaluated ==
    /\ wake_call.called
    /\ DOMAIN wake_call.df = { "close", "volume" }
    /\ Len(wake_call.df.close) > 0 /\ Len(wake_call.df.volume) > 0

C21_RsiExtreme ==
    /\ wake_call.indicators.rsi # NaN
    /\ wake_call.indicators.rsi > 70 \/ wake_call.indicators.rsi < 30

C21_BandBreak ==
    LET close == wake_call.df.close[Len(wake_call.df.close)]
    IN  close >= wake_call.indicators.bb_upper \/ close <= wake_call.indicators.bb_lower

C21_VolumeSpike ==
    LET volume == wake_call.df.volume[Len(wake_call.df.volume)]
    IN  10 * volume > 15 * wake_call.indicators.volume_sma

\* C21: should_wake_ai returns true exactly when RSI > 70 or RSI < 30, or the
\* last close is at or beyond a band, or the last volume exceeds 1.5 times
\* volume_sma; each condition alone is enough.
C21_LiveGate ==
    C21_Evaluated
    => ( wake_call.result <=> (C21_RsiExtreme \/ C21_BandBreak \/ C21_VolumeSpike) )

\* C21 witness: the volume spike alone wakes the AI
C21_Witness ==
    /\ C21_Evaluated
    /\ ~C21_RsiExtreme /\ ~C21_BandBreak /\ C21_VolumeSpike
    /\ wake_call.result = TRUE

\* the micro_features for which should_wake_ai_weekend, given the indicators
\* and candles of the should_wake_ai call that has just returned, returns True
C22_WeekendWakes ==
    IF wake_call.called /\ "close" \in DOMAIN wake_call.df
    THEN { mf \in GateMicroFeatures :
              ShouldWakeAiWeekend(wake_call.indicators, wake_call.df.close, mf) }
    ELSE { }

\* C22 as stated: for the same indicators and candles, whenever
\* should_wake_ai_weekend returns true, should_wake_ai returns true.
C22_AsStated ==
    C22_WeekendWakes # { } => wake_call.result = TRUE

\* the absolute gap_friday of a micro_features dict, in hundredths of a percent
C22_Gap(mf) ==
    IF "gap_friday" \in DOMAIN mf
    THEN (IF mf.gap_friday < 0 THEN 0 - mf.gap_friday ELSE mf.gap_friday)
    ELSE 0

\* C22: for the same indicators and candles, whenever should_wake_ai_weekend
\* returns true on micro_features whose gap_friday is at most 0.5 percent in
\* absolute value, should_wake_ai returns true.
C22_ConservativeWithoutGap ==
    ( \E mf \in C22_WeekendWakes : C22_Gap(mf) <= 50 ) => wake_call.result = TRUE

\* C22 witness: RSI 76 wakes both gates, the volume being ordinary and the
\* close inside the bands
C22_Witness ==
    /\ wake_call.called
    /\ DOMAIN wake_call.df = { "close", "volume" }
    /\ wake_call.indicators.rsi = 76
    /\ wake_call.df.close = << 10845 >>
    /\ wake_call.df.volume = << 0 >>
    /\ \E mf \in C22_WeekendWakes : C22_Gap(mf) = 0
    /\ wake_call.result = TRUE

\* the should_wake_ai call that has just returned found the close or the
\* volume series missing or empty
C23_LiveError ==
    /\ wake_call.called
    /\ \/ DOMAIN wake_call.df # { "close", "volume" }
       \/ wake_call.df.close = << >>
       \/ wake_call.df.volume = << >>

\* the should_wake_ai_weekend call that has just returned went past the
\* volatility veto and found the close series empty
C23_WeekendError ==
    /\ gate_call.called
    /\ gate_call.df = << >>
    /\ ( "micro_volatility" \in DOMAIN gate_call.micro_features
         => gate_call.micro_features.micro_volatility <= 1500 )

\* C23: a should_wake_ai call whose computation raises returns True, a
\* should_wake_ai_weekend call whose computation raises returns False; both
\* return a value.
C23_FailOpenFailClosed ==
    /\ C23_LiveError => ( wake_call.raised /\ wake_call.result = TRUE )
    /\ C23_WeekendError => ( gate_call.raised /\ gate_call.result = FALSE )
    /\ wake_call.result \in BOOLEAN /\ gate_call.result \in BOOLEAN

\* C23 witness: no volume column, nothing else would wake the AI
C23_Witness ==
    /\ C23_LiveError
    /\ DOMAIN wake_call.df = { "close" }
    /\ wake_call.df.close = << 10845 >>
    /\ wake_call.indicators.rsi = 50
    /\ wake_call.result = TRUE

\* the analyze_market_data call that has just returned was given fewer than
\* 20 candles
C24_ShortHistory ==
    /\ analysis_call.called
    /\ \A c \in DOMAIN analysis_call.df : Len(analysis_call.df[c]) < 20

\* C24 as stated: on fewer than 20 candles analyze_market_data returns the
\* previously computed indicator set unchanged, or a default set when none
\* was computed; it never returns "no result".
C24_AsStated ==
    C24_ShortHistory
    => /\ analysis_call.result # << >>
       /\ analysis_call.last_before # << >> => analysis_call.result = analysis_call.last_before

\* ------------------------------------------- claims: the evaluation cycle

C25_Gated == { "should_wake_ai", "should_wake_ai_weekend" } \cap cycle.calls # { }

C26_Objects(text) ==
    { SubSeq(text, p[1] + 1, p[2] - 1) :
         p \in { q \in (DOMAIN text) \X (DOMAIN text) :
                    /\ q[1] < q[2] /\ text[q[1]] = Open /\ text[q[2]] = Close
                    /\ \A k \in (q[1] + 1)..(q[2] - 1) : text[k].tok = "pair" } }

C26_ValueOf(object, key, default) ==
    IF \E i \in DOMAIN object : object[i].key = key
    THEN object[CHOOSE i \in DOMAIN object : object[i].key = key].value
    ELSE default

C26_UnknownDirection(object) ==
    LET d == C26_ValueOf(object, "direccion", Str("NEUTRAL"))
    IN  d.t # "str" \/ Upper(d.s) \notin { "UP", "DOWN", "NEUTRAL" }

C26_NonNumericConfidence(object) ==
    IntOf(C26_ValueOf(object, "confianza", Num(default_confianza))) = None

\* the replies the claim lists: a failed request, a status other than 200,
\* an empty reply, a text without a JSON object, an object with an unknown
\* direction or a confidence that is not a number
C26_Malformed(outcome) ==
    \/ outcome.kind # "ok"
    \/ /\ outcome.kind = "ok"
       /\ \/ outcome.content = << >>
          \/ C26_Objects(outcome.content) = { }
          \/ \E object \in C26_Objects(outcome.content) :
                C26_UnknownDirection(object) \/ C26_NonNumericConfidence(object)

\* C26 (as stated): analizar_mercado never raises, and for a failed request,
\* a status other than 200, an empty reply, a text without valid JSON, or
\* JSON with an unknown direction or a non-numeric confidence it returns the
\* neutral fallback: decision HOLD, carrying no confidence of the reply.
C26_AsStated ==
    (ai_call.called /\ C26_Malformed(ai_call.outcome)) => ai_call.result = FallbackResponse

\* ------------------------------------------------ claims: the risk gate in the cycle

\* what check_risk_approval would answer for the alert of the cycle, in a
\* calm market
C27_GateAnswer ==
    CheckOutcome(daily_stats, now, cycle.alert[1].prediction, cycle.alert[1].confidence, 0)

C28_InRange(score) == 0 <= score /\ score <= max_score

\* C28 (as stated): for every indicator input, extreme and negative values
\* included, and weights that sum to 1, total_score is within [0, 100] and
\* each of the six sub-scores is within [0, 100] before weighting.
C28_AsStated ==
    score_call.called =>
       /\ 0 <= score_call.result.total_score
       /\ score_call.result.total_score <= max_score * score_scale
       /\ C28_InRange(score_call.result.trend_score)
       /\ C28_InRange(score_call.result.momentum_score)
       /\ C28_InRange(score_call.result.mean_reversion_score)
       /\ C28_InRange(score_call.result.volume_score)
       /\ C28_InRange(score_call.result.volatility_score)
       /\ C28_InRange(score_call.result.structure_score)

\* ------------------------------------------- claims: constant histories

\* the call was made on 20 or more candles that all close at one price
C29_ConstantHistory ==
    /\ analysis_call.called
    /\ "close" \in DOMAIN analysis_call.df /\ "volume" \in DOMAIN analysis_call.df
    /\ Len(analysis_call.df.close) >= min_candles
    /\ \A k \in DOMAIN analysis_call.df.close :
          analysis_call.df.close[k] = analysis_call.df.close[1]

\* C29 (as stated): on a history of 20 or more candles that all have the
\* same close, the computed RSI is 50 (not NaN, not 0, not 100) and the band
\* position is 0.5.
C29_AsStated ==
    C29_ConstantHistory =>
       /\ analysis_call.result # None
       /\ analysis_call.result[1].rsi = neutral_rsi
       /\ analysis_call.result[1].bb_position = [ num |-> 1, den |-> 2 ]

\* ------------------------------------------------ claims: MarketSchedule

friday_close_hour == 22

\* the instant is at or after the Friday 22:00 close and before the Sunday
\* 22:00 opening
C30_AfterClose ==
    \/ Weekday(now) = 4 /\ Hour(now) >= friday_close_hour
    \/ Weekday(now) = 5
    \/ Weekday(now) = 6 /\ Hour(now) < friday_close_hour

\* C30 (as stated): is_friday_close is true only in the short window just
\* before the Friday 22:00 close: whenever it is true is_market_open is true
\* at the same instant, and it is false at every time after the close.
C30_AsStated ==
    schedule_call.called =>
       /\ schedule_call.is_friday_close => schedule_call.is_market_open
       /\ C30_AfterClose => ~schedule_call.is_friday_close

sunday_open_hour == 22

\* the instant lies in the weekly closure: Saturday, Sunday before the
\* opening hour, Friday from the closing hour on
C31_Closed ==
    \/ Weekday(now) = 5
    \/ Weekday(now) = 6 /\ Hour(now) < sunday_open_hour
    \/ Weekday(now) = 4 /\ Hour(now) >= friday_close_hour

C32_ContextLoaded ==
    /\ feedLog.kind = "start"
    /\ feedLog.load_attempted
    /\ friday_file # None

C33_EnteredWeekend ==
    /\ market_mode = "weekend_otc"
    /\ ~feedLog.open
    /\ \/ feedLog.kind = "start"
       \/ feedLog.kind = "live_cycle" /\ feedLog.mode_before = "live"

\* C33 (as stated): on every entry into weekend_otc mode, at startup and on a
\* live -> weekend_otc transition during a run alike, the feed attempts to
\* load the persisted last-session context into the authoritative buffer and
\* records that context's final close as friday_close_price.
C33_AsStated ==
    C33_EnteredWeekend =>
       /\ feedLog.load_attempted
       /\ friday_file # None => friday_close_price = Last(friday_file[1])

\* ------------------------------------------------ claims: stopping

\* a step in which a feed thread leaves its sleep and runs a cycle
C34_FeedCycleStarts ==
    \E i \in ThreadIds :
       /\ threads[i] = "loop"
       /\ \/ threads'[i] = "otc_except"
          \/ /\ threads'[i] = "loop"
             /\ feedVars' # feedVars
             /\ feedLog'.kind \in { "live_cycle", "weekend_cycle" }
             /\ \A j \in ThreadIds : threads[j] # "otc_except"

\* a step in which the analysis thread leaves its sleep and runs a cycle
C34_AnalysisCycleStarts ==
    /\ analysis_thread = "loop"
    /\ cycle'.called
    /\ feedVars' = feedVars
    /\ analysis_thread' = "loop"

C34_FeedThreadsOver == \A i \in ThreadIds : threads[i] \in { "unborn", "done" }

C34_AnalysisThreadOver == analysis_thread \in { "unborn", "done" }

C35_CheckedWhileLosing ==
    /\ lastCheck.called
    /\ lastCheck.pre.consecutive_losses >= max_consecutive_losses

\* ... and found a cooldown that had expired
C35_CheckedAfterExpiry ==
    /\ C35_CheckedWhileLosing
    /\ lastCheck.pre.blocked_until # None
    /\ lastCheck.at >= lastCheck.pre.blocked_until[1]

\* a step that takes the loss streak from the limit or above to below it
C35_StreakEnds ==
    /\ daily_stats.consecutive_losses >= max_consecutive_losses
    /\ daily_stats'.consecutive_losses < max_consecutive_losses

\* the step is a record_trade_result call with a result other than LOSS
C35_NonLossRecorded ==
    /\ lastRisk'.op = "record_trade_result"
    /\ lastRisk'.result # "LOSS"

\* C35 (as stated): while consecutive_losses >= max_consecutive_losses, no
\* check_risk_approval call returns approved=true: after a cooldown expires,
\* the next check sets a new 30-minute cooldown instead of approving, and an
\* approval becomes possible again only after a non-LOSS result has been
\* recorded.
C35_AsStated ==
    /\ [] ( C35_CheckedWhileLosing => ~lastCheck.result.approved )
    /\ [] ( C35_CheckedAfterExpiry
            => daily_stats.blocked_until = Some(lastCheck.at + cooldown_minutes) )
    /\ [][ C35_StreakEnds => C35_NonLossRecorded ]_vars

\* C35 (amended): while consecutive_losses >= max_consecutive_losses, no
\* check_risk_approval call returns approved=true: after a cooldown expires,
\* the next check rejects again; it sets a new 30-minute cooldown when
\* total_loss is below max_daily_loss, and otherwise rejects on the daily
\* limit and leaves the state as it was. Within one RiskManager instance the
\* streak falls below the limit only when a non-LOSS result is recorded.
C35_NoApprovalWhileLosing ==
    /\ [] ( C35_CheckedWhileLosing => ~lastCheck.result.approved )
    /\ [] ( C35_CheckedAfterExpiry
            => IF lastCheck.pre.total_loss < max_daily_loss
               THEN daily_stats.blocked_until = Some(lastCheck.at + cooldown_minutes)
               ELSE /\ daily_stats = lastCheck.pre
                    /\ lastCheck.result.reason = "Limite diario alcanzado" )
    /\ [][ C35_StreakEnds => C35_NonLossRecorded ]_vars

\* a check made when the cooldown had just expired, the streak still at the
\* limit, has rejected and set a second cooldown
C35_Witness ==
    /\ C35_CheckedAfterExpiry
    /\ lastCheck.pre.total_loss < max_daily_loss
    /\ ~lastCheck.result.approved
    /\ daily_stats.blocked_until = Some(lastCheck.at + cooldown_minutes)
    /\ lastCheck.pre.blocked_until # daily_stats.blocked_until

\* ------------------------------------------------ claims: the feed thread

\* the feed threads that are inside _hybrid_data_loop
C36_LiveThreads == { i \in ThreadIds : threads[i] \notin { "unborn", "done" } }

\* C36 (as stated): at any time at most one feed-loop thread of a
\* MarketDataStream is executing cycles, for every sequence of start_stream
\* and stop_stream calls, including a start_stream issued after stop_stream
\* returned while the previous thread was still inside its sleep.
C36_AsStated == running => Cardinality(C36_LiveThreads) <= 1

\* ------------------------------------------------ claims: late OCR results

\* a step of the executor's thread: _on_complete runs, or its except branch
C37_OcrStep == ocr_pc' # ocr_pc \/ Len(ocr_queue') < Len(ocr_queue)

\* C37 (as stated): a tick is appended to the degraded-session buffer only
\* while market_mode is weekend_otc: an asynchronous OCR result that completes
\* after the mode has switched back to live is not appended and does not
\* overwrite current_price.
C37_AsStated ==
    [][ /\ weekend_buffer' # weekend_buffer => market_mode = "weekend_otc"
        /\ ( C37_OcrStep /\ market_mode = "live" )
           => /\ weekend_buffer' = weekend_buffer
              /\ current_price' = current_price ]_vars

\* ---------------------------------------------------------------- C38
\* C38: AlertManager.show_alert for a symbol that already has an open alert
\* window, and close_all_alerts with open windows, always return: no thread
\* waits for the manager's lock while holding it. (What the claim says of
\* the list afterwards, at most one alert of the symbol and none after
\* close_all_alerts, is about the state after that return.)
C38_AsStated == ~alerts_stuck

\* ---------------------------------------------------------------- C39
C39_Received == Get(adj_call.response, "confidence_score", default_confidence)

C39_Returned == adj_call.result.confidence_score

C39_Penalty == Get(adj_call.risk_adjustment, "confidence_penalty", 0)

\* C39 as stated: for every response and every penalty >= 0, the
\* confidence_score _apply_memory_adjustments returns is at most the
\* confidence_score of the response it received.
C39_AsStated == adj_call.called => C39_Returned <= C39_Received

\* C39: the confidence_score _apply_memory_adjustments returns is at most
\* the greater of the received confidence_score (50 when the response has
\* none) and the floor of 45: a response at or above the floor is never
\* raised, a response below it is returned with exactly the floor.
C39_NeverAboveReceivedOrFloor ==
    adj_call.called =>
        /\ C39_Returned <= Max(C39_Received, min_adjusted_confidence)
        /\ C39_Received >= min_adjusted_confidence => C39_Returned <= C39_Received
        /\ C39_Received < min_adjusted_confidence => C39_Returned = min_adjusted_confidence

\* a penalty was subtracted from a confidence that stays above the floor
C39_Witness ==
    /\ adj_call.called
    /\ C39_Penalty > 0
    /\ "confidence_score" \in DOMAIN adj_call.response
    /\ C39_Received - C39_Penalty > min_adjusted_confidence
    /\ C39_Returned < C39_Received

\* ---------------------------------------------------------------- C40
\* the last adjustment was made under should_be_neutral = true
C40_NeutralAdjusted ==
    /\ adj_call.called
    /\ Get(adj_call.risk_adjustment, "should_be_neutral", FALSE)

\* the last check was asked about the response the last adjustment returned
C40_Checked ==
    /\ lastCheck.called
    /\ adj_call.called
    /\ "signal" \in DOMAIN adj_call.result
    /\ lastCheck.ai_decision = adj_call.result.signal
    /\ lastCheck.confidence = adj_call.result.confidence_score

\* C40: a response adjusted under should_be_neutral = true has the signal
\* NEUTRAL and a confidence of at most 55, and check_risk_approval never
\* approves it, in any risk state and for any volatility.
C40_NeutralNeverApproved ==
    /\ C40_NeutralAdjusted =>
          /\ Get(adj_call.result, "signal", "") = "NEUTRAL"
          /\ adj_call.result.confidence_score <= max_neutral_confidence
    /\ ( C40_NeutralAdjusted /\ C40_Checked ) => ~lastCheck.result.approved

\* a reply CALL of confidence 100, made neutral, reached the confidence check
\* of a risk manager with nothing else to object
C40_Witness ==
    /\ C40_NeutralAdjusted
    /\ C40_Checked
    /\ Get(adj_call.response, "signal", "") = "CALL"
    /\ adj_call.response.confidence_score = 100
    /\ lastCheck.market_volatility <= max_volatility
    /\ lastCheck.result.reason = "Confianza insuficiente"
====
